---- MODULE Spec2Model ----
(***************************************************************************)
(* A model of the n8n configuration wizard core: the validation rule       *)
(* engine (lib/constants.ts, lib/validation/rules.ts, validator.ts) and    *)
(* the diff/revert engine (lib/diff.ts).                                   *)
(*                                                                         *)
(* Values are JavaScript strings, modelled as sequences of one-character   *)
(* strings so that trim() and the numeric regular expression are computed  *)
(* character by character.  Field names are atomic strings; Spell gives    *)
(* the characters of the names that are compared with localeCompare.       *)
(* A Record<string,string> is an insertion-ordered map: a sequence of      *)
(* [k, v] entries with distinct keys.                                      *)
(***************************************************************************)
EXTENDS Integers, Sequences, FiniteSets, TLC

VARIABLES
    config,           \* validation: the config argument (ordered map)
    fieldRulesCache,  \* rules.ts: the module-level Map of built rule lists
    argField,         \* validation: the fieldName argument of validateField
    argValue,         \* validation: the value argument of validateField
    ret,              \* validation: the last call and what it returned
    heap,             \* diff: object id -> ordered map (objects have identity)
    cfg,              \* diff: reference of the config argument
    defs,             \* diff: reference of the defaults argument
    dret,             \* diff: the last call and what it returned
    options,          \* generator: the formatOrOptions argument
    now,              \* generator: the reading of the clock
    out,              \* generator: the last call and the text it returned
    localStorage,     \* templates: the item under the custom-templates key
    nextId,           \* templates: the number of the next generated id
    sret,             \* templates: the last call, its arguments and outcome
    jret,             \* JSON export: the last call, its arguments and result
    step,             \* wizard: "template" or "configure"
    selectedTemplate, \* wizard: the id of the selected template, or "null"
    showOutput,       \* wizard: the output panel is open
    showImport,       \* wizard: the import modal is open
    showDiff,         \* wizard: the diff panel is open
    keydown,          \* wizard: what the registered keydown listener closed over
    event             \* wizard: the last user action

valVars  == <<config, fieldRulesCache, argField, argValue, ret>>
diffVars == <<heap, cfg, defs, dret>>
genVars  == <<options, now, out>>
storeVars == <<localStorage, nextId, sret>>
jsonVars == <<jret>>
wizVars  == <<step, selectedTemplate, showOutput, showImport, showDiff, keydown,
              event>>
vars     == <<config, fieldRulesCache, argField, argValue, ret, heap, cfg, defs,
              dret, options, now, out, localStorage, nextId, sret, jret, step,
              selectedTemplate, showOutput, showImport, showDiff, keydown,
              event>>

----------------------------------------------------------------------------
(* Bounds of the model *)

\* most keys of a config drawn for validateConfig
MaxKeys == 3
\* longest generated value handed to validateField
MaxLen == 3
\* most keys of a config or defaults map drawn for the diff engine
MaxDiffKeys == 2
\* most keys of a config handed to generateOutput
MaxGenKeys == 2
\* last reading of the clock
MaxClock == 1
\* most template ids generated in one behaviour
MaxIds == 2
\* most keys of a config validated while the rule cache fills and empties
MaxCacheKeys == 2
\* most keys of a config or defaults map whose fields are reverted in turn
MaxRevertKeys == 2
\* most keys of a config that is exported as JSON
MaxJsonKeys == 2

----------------------------------------------------------------------------
(* JavaScript strings and values *)

\* the value of config[field] when field is not a key
Undefined == <<"undefined">>

EmptyStr == <<>>

S_postgresdb == <<"p","o","s","t","g","r","e","s","d","b">>
S_sqlite     == <<"s","q","l","i","t","e">>
S_queue      == <<"q","u","e","u","e">>
S_regular    == <<"r","e","g","u","l","a","r">>
S_true       == <<"t","r","u","e">>
S_false      == <<"f","a","l","s","e">>
S_True       == <<"T","r","u","e">>
S_yes        == <<"y","e","s">>
S_http       == <<"h","t","t","p">>
S_https      == <<"h","t","t","p","s">>
S_all        == <<"a","l","l">>
S_none       == <<"n","o","n","e">>
S_strict     == <<"s","t","r","i","c","t">>
S_lax        == <<"l","a","x">>
S_info       == <<"i","n","f","o">>
S_warn       == <<"w","a","r","n">>
S_error      == <<"e","r","r","o","r">>
S_debug      == <<"d","e","b","u","g">>
S_console    == <<"c","o","n","s","o","l","e">>
S_file       == <<"f","i","l","e">>
S_text       == <<"t","e","x","t">>
S_json       == <<"j","s","o","n">>
S_default    == <<"d","e","f","a","u","l","t">>
S_filesystem == <<"f","i","l","e","s","y","s","t","e","m">>
S_s3         == <<"s","3">>
S_database   == <<"d","a","t","a","b","a","s","e">>
S_ed25519    == <<"e","d","2","5","5","1","9">>
S_rsa        == <<"r","s","a">>
S_localhost  == <<"l","o","c","a","l","h","o","s","t">>
S_5678       == <<"5","6","7","8">>

IsDigit(c) == c \in {"0","1","2","3","4","5","6","7","8","9"}

\* the white space String.prototype.trim removes (the ASCII part of it)
IsSpace(c) == c \in {" ", "\t", "\n", "\r"}

RECURSIVE TrimStart(_)
TrimStart(s) ==
    IF Len(s) > 0 /\ IsSpace(s[1]) THEN TrimStart(Tail(s)) ELSE s

RECURSIVE TrimEnd(_)
TrimEnd(s) ==
    IF Len(s) > 0 /\ IsSpace(s[Len(s)])
    THEN TrimEnd(SubSeq(s, 1, Len(s) - 1))
    ELSE s

Trim(s) == TrimEnd(TrimStart(s))

\* MatchesInteger with a fault: the pattern without its anchors, /-?\d+/
MatchesIntegerUnanchored(s) == \E i \in 1..Len(s) : IsDigit(s[i])

\* /^-?\d+$/.test(s)
MatchesInteger(s) ==
    LET t == IF Len(s) > 0 /\ s[1] = "-" THEN Tail(s) ELSE s
    IN  Len(t) >= 1 /\ \A i \in 1..Len(t) : IsDigit(t[i])

----------------------------------------------------------------------------
(* Insertion-ordered maps (plain objects with string keys) *)

KeySeq(m) == [i \in 1..Len(m) |-> m[i].k]
KeySet(m) == {m[i].k : i \in 1..Len(m)}
Has(m, key) == key \in KeySet(m)
IndexOf(m, key) == CHOOSE i \in 1..Len(m) : m[i].k = key
\* m[key]
Get(m, key) == IF Has(m, key) THEN m[IndexOf(m, key)].v ELSE Undefined
\* m[key] = value: an existing key keeps its place, a new key goes last
Put(m, key, value) ==
    IF Has(m, key)
    THEN [m EXCEPT ![IndexOf(m, key)] = [k |-> key, v |-> value]]
    ELSE Append(m, [k |-> key, v |-> value])
\* delete m[key]
Delete(m, key) == SelectSeq(m, LAMBDA e : e.k # key)

RECURSIVE PutAll(_, _)
\* { ...m, ...more }
PutAll(m, more) ==
    IF more = <<>> THEN m
    ELSE PutAll(Put(m, Head(more).k, Head(more).v), Tail(more))

\* deep equality of two plain objects (key order does not count)
DeepEqual(a, b) ==
    /\ KeySet(a) = KeySet(b)
    /\ \A key \in KeySet(a) : Get(a, key) = Get(b, key)

WellFormedMap(m) == \A i, j \in 1..Len(m) : m[i].k = m[j].k => i = j

----------------------------------------------------------------------------
(* lib/constants.ts: the static classification tables *)

ENUM_VALUES ==
    [ N8N_PROTOCOL |-> <<S_http, S_https>>,
      DB_TYPE |-> <<S_sqlite, S_postgresdb>>,
      EXECUTIONS_MODE |-> <<S_regular, S_queue>>,
      EXECUTIONS_DATA_SAVE_ON_ERROR |-> <<S_all, S_none>>,
      EXECUTIONS_DATA_SAVE_ON_SUCCESS |-> <<S_all, S_none>>,
      N8N_SAMESITE_COOKIE |-> <<S_strict, S_lax, S_none>>,
      N8N_LOG_LEVEL |-> <<S_info, S_warn, S_error, S_debug>>,
      N8N_LOG_OUTPUT |-> <<S_console, S_file>>,
      N8N_LOG_FORMAT |-> <<S_text, S_json>>,
      N8N_DEFAULT_BINARY_DATA_MODE |->
          <<S_default, S_filesystem, S_s3, S_database>>,
      N8N_SOURCECONTROL_DEFAULT_SSH_KEY_TYPE |-> <<S_ed25519, S_rsa>> ]

REQUIRED_FIELDS == <<"N8N_HOST", "N8N_PORT", "DB_TYPE">>

POSTGRES_REQUIRED_FIELDS ==
    <<"DB_POSTGRESDB_HOST", "DB_POSTGRESDB_PORT",
      "DB_POSTGRESDB_DATABASE", "DB_POSTGRESDB_USER">>

REDIS_REQUIRED_FIELDS == <<"QUEUE_BULL_REDIS_HOST", "QUEUE_BULL_REDIS_PORT">>

NUMERIC_FIELDS ==
    <<"N8N_PORT", "N8N_GRACEFUL_SHUTDOWN_TIMEOUT", "N8N_PROXY_HOPS",
      "DB_POSTGRESDB_PORT", "DB_POSTGRESDB_POOL_SIZE", "DB_SQLITE_POOL_SIZE",
      "EXECUTIONS_TIMEOUT", "EXECUTIONS_TIMEOUT_MAX",
      "EXECUTIONS_DATA_MAX_AGE", "EXECUTIONS_DATA_PRUNE_MAX_COUNT",
      "N8N_CONCURRENCY_PRODUCTION_LIMIT", "QUEUE_BULL_REDIS_PORT",
      "QUEUE_BULL_REDIS_DB", "QUEUE_HEALTH_CHECK_PORT",
      "N8N_USER_MANAGEMENT_JWT_DURATION_HOURS", "N8N_LOG_FILE_COUNT_MAX",
      "N8N_LOG_FILE_SIZE_MAX", "N8N_SMTP_PORT", "N8N_PAYLOAD_SIZE_MAX">>

BOOLEAN_FIELDS ==
    <<"N8N_DISABLE_UI", "N8N_TEMPLATES_ENABLED", "DB_POSTGRESDB_SSL_ENABLED",
      "EXECUTIONS_DATA_PRUNE", "QUEUE_BULL_REDIS_TLS",
      "QUEUE_HEALTH_CHECK_ACTIVE", "N8N_MULTI_MAIN_SETUP_ENABLED",
      "OFFLOAD_MANUAL_EXECUTIONS_TO_WORKERS", "N8N_SECURE_COOKIE",
      "N8N_BLOCK_ENV_ACCESS_IN_NODE", "N8N_BLOCK_FILE_ACCESS_TO_N8N_FILES",
      "N8N_MFA_ENABLED", "DB_LOGGING_ENABLED", "N8N_SMTP_SSL",
      "N8N_SMTP_STARTTLS", "N8N_DIAGNOSTICS_ENABLED", "N8N_METRICS",
      "N8N_PUBLIC_API_DISABLED", "N8N_COMMUNITY_PACKAGES_ENABLED",
      "N8N_PYTHON_ENABLED">>

\* Array.prototype.includes
Includes(list, x) == \E i \in 1..Len(list) : list[i] = x

----------------------------------------------------------------------------
(* lib/constants.ts: the rule factories.  A rule is {type, message,        *)
(* validate}; the closure validate is kept as the factory that made it     *)
(* (fn) with what it captured (allowed), and RuleValidate applies it.      *)
(* A message `${fieldName} text` is kept as its parts.                     *)

createNumericRule(fieldName) ==
    [ type |-> "numeric",
      message |-> <<fieldName, " must be a valid number">>,
      fn |-> "numeric", allowed |-> <<>> ]

createBooleanRule(fieldName) ==
    [ type |-> "boolean",
      message |-> <<fieldName, " must be 'true' or 'false'">>,
      fn |-> "boolean", allowed |-> <<>> ]

createEnumRule(fieldName, allowedValues) ==
    [ type |-> "enum",
      message |-> <<fieldName, " must be one of: ", allowedValues>>,
      fn |-> "enum", allowed |-> allowedValues ]

createRequiredRule(fieldName) ==
    [ type |-> "required",
      message |-> <<fieldName, " is required">>,
      fn |-> "required", allowed |-> <<>> ]

createPostgresDependencyRule(fieldName) ==
    [ type |-> "dependency",
      message |-> <<fieldName, " is required when using PostgreSQL database">>,
      fn |-> "postgres", allowed |-> <<>> ]

createRedisDependencyRule(fieldName) ==
    [ type |-> "dependency",
      message |-> <<fieldName, " is required when using Queue mode">>,
      fn |-> "redis", allowed |-> <<>> ]

\* createNumericRule(...).validate
NumericValidate(value) ==
    IF value = EmptyStr \/ value = Undefined THEN TRUE
    ELSE MatchesInteger(value)

\* createBooleanRule(...).validate
BooleanValidate(value) ==
    IF value = EmptyStr \/ value = Undefined THEN TRUE
    ELSE value = S_true \/ value = S_false

\* createEnumRule(...).validate
EnumValidate(value, allowedValues) ==
    IF value = EmptyStr \/ value = Undefined THEN TRUE
    ELSE Includes(allowedValues, value)

\* RequiredValidate with a fault: only the undefined check
RequiredValidateLenient(value) == value # Undefined

\* createRequiredRule(...).validate
RequiredValidate(value) == value # EmptyStr /\ value # Undefined

\* PostgresDependencyValidate with a fault: the DB_TYPE gate left out
PostgresDependencyUngated(value, conf) ==
    value # Undefined /\ Trim(value) # EmptyStr

\* createPostgresDependencyRule(...).validate
PostgresDependencyValidate(value, conf) ==
    IF Get(conf, "DB_TYPE") # S_postgresdb THEN TRUE
    ELSE value # Undefined /\ Trim(value) # EmptyStr

\* createRedisDependencyRule(...).validate
RedisDependencyValidate(value, conf) ==
    IF Get(conf, "EXECUTIONS_MODE") # S_queue THEN TRUE
    ELSE value # Undefined /\ Trim(value) # EmptyStr

\* rule.validate(value, config)
RuleValidate(rule, value, conf) ==
    CASE rule.fn = "numeric"  -> NumericValidate(value)
      [] rule.fn = "boolean"  -> BooleanValidate(value)
      [] rule.fn = "enum"     -> EnumValidate(value, rule.allowed)
      [] rule.fn = "required" -> RequiredValidate(value)
      [] rule.fn = "postgres" -> PostgresDependencyValidate(value, conf)
      [] rule.fn = "redis"    -> RedisDependencyValidate(value, conf)

----------------------------------------------------------------------------
(* lib/validation/rules.ts *)

\* the rules a field gets, in construction order
buildFieldRules(fieldName) ==
    (IF Includes(REQUIRED_FIELDS, fieldName)
        THEN <<createRequiredRule(fieldName)>> ELSE <<>>)
    \o (IF Includes(NUMERIC_FIELDS, fieldName)
        THEN <<createNumericRule(fieldName)>> ELSE <<>>)
    \o (IF Includes(BOOLEAN_FIELDS, fieldName)
        THEN <<createBooleanRule(fieldName)>> ELSE <<>>)
    \o (IF fieldName \in DOMAIN ENUM_VALUES
        THEN <<createEnumRule(fieldName, ENUM_VALUES[fieldName])>> ELSE <<>>)
    \o (IF Includes(POSTGRES_REQUIRED_FIELDS, fieldName)
        THEN <<createPostgresDependencyRule(fieldName)>> ELSE <<>>)
    \o (IF Includes(REDIS_REQUIRED_FIELDS, fieldName)
        THEN <<createRedisDependencyRule(fieldName)>> ELSE <<>>)

\* the cache is a function from the cached field names to their rule lists
EmptyCache == [f \in {} |-> <<>>]

\* CacheAfterGet with a fault: a field that is not cached gets the list of
\* one that is
CacheAfterGetAlias(cache, fieldName) ==
    IF fieldName \in DOMAIN cache THEN cache
    ELSE [f \in DOMAIN cache \cup {fieldName} |->
            IF f # fieldName THEN cache[f]
            ELSE IF DOMAIN cache = {} THEN buildFieldRules(fieldName)
            ELSE cache[CHOOSE g \in DOMAIN cache : TRUE]]

\* getFieldRules: the cache after the call
CacheAfterGet(cache, fieldName) ==
    IF fieldName \in DOMAIN cache THEN cache
    ELSE [f \in DOMAIN cache \cup {fieldName} |->
            IF f = fieldName THEN buildFieldRules(fieldName) ELSE cache[f]]

\* getFieldRules: the list returned
getFieldRules(cache, fieldName) == CacheAfterGet(cache, fieldName)[fieldName]

----------------------------------------------------------------------------
(* lib/validation/validator.ts *)

RECURSIVE RuleErrors(_, _, _, _)
\* the loop of validateField: one error per failing rule, in rule order
RuleErrors(rules, fieldName, value, conf) ==
    IF rules = <<>> THEN <<>>
    ELSE (IF RuleValidate(Head(rules), value, conf) THEN <<>>
          ELSE << [ field |-> fieldName,
                    message |-> Head(rules).message,
                    type |-> "error" ] >>)
         \o RuleErrors(Tail(rules), fieldName, value, conf)

\* validateField with a fault: the loop stops at the first failing rule
validateFieldFirstOnly(cache, fieldName, value, conf) ==
    LET all == RuleErrors(getFieldRules(cache, fieldName), fieldName, value, conf)
    IN  IF all = <<>> THEN <<>> ELSE <<all[1]>>

\* validateField(fieldName, value, config), read through cache
validateField(cache, fieldName, value, conf) ==
    RuleErrors(getFieldRules(cache, fieldName), fieldName, value, conf)

RECURSIVE FieldPass(_, _, _)
\* the first loop of validateConfig over Object.entries(config):
\* the errors, and the cache as the calls leave it
FieldPass(entries, conf, cache) ==
    IF entries = <<>> THEN [errors |-> <<>>, cache |-> cache]
    ELSE LET e    == Head(entries)
             here == validateField(cache, e.k, e.v, conf)
             rest == FieldPass(Tail(entries), conf, CacheAfterGet(cache, e.k))
         IN  [errors |-> here \o rest.errors, cache |-> rest.cache]

\* IsEmptyValue with a fault: only a present value can be empty
IsEmptyValuePresentOnly(value) == value # Undefined /\ Trim(value) = EmptyStr

\* value === undefined || value === null || value.trim() === ''
IsEmptyValue(value) == value = Undefined \/ Trim(value) = EmptyStr

\* AlreadyHasError with a fault: the dependency pass never suppresses
AlreadyHasErrorNever(errors, fieldName) == FALSE

\* errors.some(e => e.field === field && e.type === 'error')
AlreadyHasError(errors, fieldName) ==
    \E i \in 1..Len(errors) :
        errors[i].field = fieldName /\ errors[i].type = "error"

RECURSIVE DependencyPass(_, _, _, _)
\* one of the two dependency loops of validateConfig: errors grown by one
\* error per listed field that is empty and has no error yet
DependencyPass(fields, text, conf, errors) ==
    IF fields = <<>> THEN errors
    ELSE LET f    == Head(fields)
             next == IF IsEmptyValue(Get(conf, f)) /\ ~AlreadyHasError(errors, f)
                     THEN Append(errors, [ field |-> f,
                                           message |-> <<f, text>>,
                                           type |-> "error" ])
                     ELSE errors
         IN  DependencyPass(Tail(fields), text, conf, next)

\* the errors validateConfig returns, given the errors of the field pass
ConfigErrors(conf, fieldErrors) ==
    LET afterPg ==
            IF Get(conf, "DB_TYPE") = S_postgresdb
            THEN DependencyPass(POSTGRES_REQUIRED_FIELDS,
                     " is required when using PostgreSQL database",
                     conf, fieldErrors)
            ELSE fieldErrors
    IN  IF Get(conf, "EXECUTIONS_MODE") = S_queue
        THEN DependencyPass(REDIS_REQUIRED_FIELDS,
                 " is required when using Queue mode", conf, afterPg)
        ELSE afterPg

\* validateConfig(config): {valid, errors, warnings}
validateConfig(cache, conf) ==
    LET errors == ConfigErrors(conf, FieldPass(conf, conf, cache).errors)
    IN  [ valid |-> Len(errors) = 0, errors |-> errors, warnings |-> <<>> ]

\* the cache after validateConfig(config)
CacheAfterValidate(cache, conf) == FieldPass(conf, conf, cache).cache

\* canGenerate(config)
canGenerate(cache, conf) == validateConfig(cache, conf).valid

RECURSIVE GroupByFieldOverwrite(_, _)
\* GroupByField with a fault: the field's list is replaced, not extended
GroupByFieldOverwrite(errors, byField) ==
    IF errors = <<>> THEN byField
    ELSE GroupByFieldOverwrite(Tail(errors),
             Put(byField, Head(errors).field, <<Head(errors)>>))

RECURSIVE GroupByField(_, _)
\* the loop of getValidationErrorsByField: a Map from field to its errors
GroupByField(errors, byField) ==
    IF errors = <<>> THEN byField
    ELSE LET e        == Head(errors)
             existing == IF Has(byField, e.field) THEN Get(byField, e.field)
                         ELSE <<>>
         IN  GroupByField(Tail(errors),
                          Put(byField, e.field, Append(existing, e)))

\* getValidationErrorsByField(config)
getValidationErrorsByField(cache, conf) ==
    GroupByField(validateConfig(cache, conf).errors, <<>>)

----------------------------------------------------------------------------
(* lib/n8n-config.ts: the categories and the names of their variables *)

categories ==
    <<
      [ id |-> "deployment",
        variables |-> <<"N8N_HOST", "N8N_PORT", "N8N_PROTOCOL",
            "N8N_EDITOR_BASE_URL", "N8N_PATH", "N8N_LISTEN_ADDRESS",
            "N8N_SSL_KEY", "N8N_SSL_CERT", "N8N_ENCRYPTION_KEY",
            "N8N_USER_FOLDER", "N8N_DISABLE_UI", "N8N_TEMPLATES_ENABLED",
            "N8N_GRACEFUL_SHUTDOWN_TIMEOUT", "N8N_PROXY_HOPS">> ],
      [ id |-> "database",
        variables |-> <<"DB_TYPE", "DB_TABLE_PREFIX", "DB_POSTGRESDB_HOST",
            "DB_POSTGRESDB_PORT", "DB_POSTGRESDB_DATABASE",
            "DB_POSTGRESDB_USER", "DB_POSTGRESDB_PASSWORD",
            "DB_POSTGRESDB_POOL_SIZE", "DB_POSTGRESDB_SCHEMA",
            "DB_POSTGRESDB_SSL_ENABLED", "DB_SQLITE_POOL_SIZE">> ],
      [ id |-> "executions",
        variables |-> <<"EXECUTIONS_MODE", "EXECUTIONS_TIMEOUT",
            "EXECUTIONS_TIMEOUT_MAX", "EXECUTIONS_DATA_SAVE_ON_ERROR",
            "EXECUTIONS_DATA_SAVE_ON_SUCCESS", "EXECUTIONS_DATA_PRUNE",
            "EXECUTIONS_DATA_MAX_AGE", "EXECUTIONS_DATA_PRUNE_MAX_COUNT",
            "N8N_CONCURRENCY_PRODUCTION_LIMIT">> ],
      [ id |-> "queue",
        variables |-> <<"QUEUE_BULL_REDIS_HOST", "QUEUE_BULL_REDIS_PORT",
            "QUEUE_BULL_REDIS_DB", "QUEUE_BULL_REDIS_USERNAME",
            "QUEUE_BULL_REDIS_PASSWORD", "QUEUE_BULL_REDIS_TLS",
            "QUEUE_BULL_PREFIX", "QUEUE_HEALTH_CHECK_ACTIVE",
            "QUEUE_HEALTH_CHECK_PORT", "N8N_MULTI_MAIN_SETUP_ENABLED",
            "OFFLOAD_MANUAL_EXECUTIONS_TO_WORKERS">> ],
      [ id |-> "security",
        variables |-> <<"N8N_SECURE_COOKIE", "N8N_SAMESITE_COOKIE",
            "N8N_BLOCK_ENV_ACCESS_IN_NODE",
            "N8N_BLOCK_FILE_ACCESS_TO_N8N_FILES",
            "N8N_RESTRICT_FILE_ACCESS_TO", "N8N_MFA_ENABLED",
            "N8N_USER_MANAGEMENT_JWT_SECRET",
            "N8N_USER_MANAGEMENT_JWT_DURATION_HOURS">> ],
      [ id |-> "logs",
        variables |-> <<"N8N_LOG_LEVEL", "N8N_LOG_OUTPUT", "N8N_LOG_FORMAT",
            "N8N_LOG_FILE_LOCATION", "N8N_LOG_FILE_COUNT_MAX",
            "N8N_LOG_FILE_SIZE_MAX", "DB_LOGGING_ENABLED">> ],
      [ id |-> "smtp",
        variables |-> <<"N8N_EMAIL_MODE", "N8N_SMTP_HOST", "N8N_SMTP_PORT",
            "N8N_SMTP_USER", "N8N_SMTP_PASS", "N8N_SMTP_SENDER",
            "N8N_SMTP_SSL", "N8N_SMTP_STARTTLS">> ],
      [ id |-> "storage",
        variables |-> <<"N8N_DEFAULT_BINARY_DATA_MODE",
            "N8N_BINARY_DATA_STORAGE_PATH", "N8N_EXTERNAL_STORAGE_S3_HOST",
            "N8N_EXTERNAL_STORAGE_S3_BUCKET_NAME",
            "N8N_EXTERNAL_STORAGE_S3_BUCKET_REGION",
            "N8N_EXTERNAL_STORAGE_S3_ACCESS_KEY",
            "N8N_EXTERNAL_STORAGE_S3_ACCESS_SECRET">> ],
      [ id |-> "ai",
        variables |-> <<"N8N_AI_ASSISTANT_BASE_URL",
            "N8N_DIAGNOSTICS_ENABLED">> ],
      [ id |-> "source-control",
        variables |-> <<"N8N_SOURCECONTROL_DEFAULT_SSH_KEY_TYPE">> ],
      [ id |-> "timezone",
        variables |-> <<"GENERIC_TIMEZONE", "N8N_DEFAULT_LOCALE">> ],
      [ id |-> "endpoints",
        variables |-> <<"N8N_PAYLOAD_SIZE_MAX", "N8N_METRICS",
            "N8N_METRICS_PREFIX", "N8N_ENDPOINT_WEBHOOK",
            "N8N_ENDPOINT_WEBHOOK_TEST", "WEBHOOK_URL",
            "N8N_PUBLIC_API_DISABLED">> ],
      [ id |-> "nodes",
        variables |-> <<"N8N_COMMUNITY_PACKAGES_ENABLED",
            "N8N_PYTHON_ENABLED", "NODE_FUNCTION_ALLOW_BUILTIN",
            "NODE_FUNCTION_ALLOW_EXTERNAL", "NODES_EXCLUDE",
            "N8N_CUSTOM_EXTENSIONS">> ]
    >>

----------------------------------------------------------------------------
(* String.prototype.localeCompare on the names the diff sorts.  The names  *)
(* are letters of one case per name, digits, "_" and "-"; on such names    *)
(* the comparison is decided at the first character whose collation        *)
(* weight differs ("_" before "-" before digits before letters), a proper  *)
(* prefix coming first.                                                     *)

Spell(name) ==
    CASE name = "N8N_HOST"       -> <<"N","8","N","_","H","O","S","T">>
      [] name = "N8N_PORT"       -> <<"N","8","N","_","P","O","R","T">>
      [] name = "DB_TYPE"        -> <<"D","B","_","T","Y","P","E">>
      [] name = "CUSTOM_VAR"     -> <<"C","U","S","T","O","M","_","V","A","R">>
      [] name = "EXECUTIONS_MODE" ->
             <<"E","X","E","C","U","T","I","O","N","S","_","M","O","D","E">>
      [] name = "DB_POSTGRESDB_USER" ->
             <<"D","B","_","P","O","S","T","G","R","E","S","D","B","_","U","S","E","R">>
      [] name = "DB_POSTGRESDB_PASSWORD" ->
             <<"D","B","_","P","O","S","T","G","R","E","S","D","B","_","P","A","S","S","W","O","R","D">>
      [] name = "DB_POSTGRESDB_DATABASE" ->
             <<"D","B","_","P","O","S","T","G","R","E","S","D","B","_","D","A","T","A","B","A","S","E">>
      [] name = "N8N_ENCRYPTION_KEY" ->
             <<"N","8","N","_","E","N","C","R","Y","P","T","I","O","N","_","K","E","Y">>
      [] name = "N8N_SMTP_PASS" ->
             <<"N","8","N","_","S","M","T","P","_","P","A","S","S">>
      [] name = "N8N_USER_MANAGEMENT_JWT_SECRET" ->
             <<"N","8","N","_","U","S","E","R","_","M","A","N","A","G","E","M","E","N","T","_","J","W","T","_","S","E","C","R","E","T">>
      [] name = "PASSPORT_ID" ->
             <<"P","A","S","S","P","O","R","T","_","I","D">>
      [] name = "api_Token" ->
             <<"a","p","i","_","T","o","k","e","n">>
      [] name = "MONKEY_NAME" ->
             <<"M","O","N","K","E","Y","_","N","A","M","E">>
      [] name = "deployment"     -> <<"d","e","p","l","o","y","m","e","n","t">>
      [] name = "database"       -> <<"d","a","t","a","b","a","s","e">>
      [] name = "executions"     -> <<"e","x","e","c","u","t","i","o","n","s">>
      [] name = "queue"          -> <<"q","u","e","u","e">>
      [] name = "security"       -> <<"s","e","c","u","r","i","t","y">>
      [] name = "logs"           -> <<"l","o","g","s">>
      [] name = "smtp"           -> <<"s","m","t","p">>
      [] name = "storage"        -> <<"s","t","o","r","a","g","e">>
      [] name = "ai"             -> <<"a","i">>
      [] name = "source-control" ->
             <<"s","o","u","r","c","e","-","c","o","n","t","r","o","l">>
      [] name = "timezone"       -> <<"t","i","m","e","z","o","n","e">>
      [] name = "endpoints"      -> <<"e","n","d","p","o","i","n","t","s">>
      [] name = "nodes"          -> <<"n","o","d","e","s">>
      [] name = "unknown"        -> <<"u","n","k","n","o","w","n">>

UpperCase ==
    <<"A","B","C","D","E","F","G","H","I","J","K","L","M",
      "N","O","P","Q","R","S","T","U","V","W","X","Y","Z">>

CollationOrder ==
    <<"_","-","0","1","2","3","4","5","6","7","8","9",
      "a","b","c","d","e","f","g","h","i","j","k","l","m",
      "n","o","p","q","r","s","t","u","v","w","x","y","z">>

IndexIn(list, x) == CHOOSE i \in 1..Len(list) : list[i] = x

\* the collation weight of a character: letters compare without case
CollationWeight(c) ==
    IF Includes(UpperCase, c) THEN 12 + IndexIn(UpperCase, c)
    ELSE IndexIn(CollationOrder, c)

RECURSIVE CompareSpelled(_, _)
CompareSpelled(a, b) ==
    CASE a = <<>> /\ b = <<>> -> 0
      [] a = <<>> /\ b # <<>> -> -1
      [] a # <<>> /\ b = <<>> -> 1
      [] OTHER ->
           IF CollationWeight(Head(a)) < CollationWeight(Head(b)) THEN -1
           ELSE IF CollationWeight(Head(a)) > CollationWeight(Head(b)) THEN 1
           ELSE CompareSpelled(Tail(a), Tail(b))

\* a.localeCompare(b)
localeCompare(a, b) == CompareSpelled(Spell(a), Spell(b))

----------------------------------------------------------------------------
(* lib/diff.ts *)

RECURSIVE CategoryOf(_, _)
CategoryOf(cats, fieldName) ==
    IF cats = <<>> THEN "unknown"
    ELSE IF Includes(Head(cats).variables, fieldName) THEN Head(cats).id
    ELSE CategoryOf(Tail(cats), fieldName)

getFieldCategory(fieldName) == CategoryOf(categories, fieldName)

\* ValueOr with a fault: the "?? ''" left out
ValueNoDefault(m, key) == Get(m, key)

\* m[key] ?? ''
ValueOr(m, key) == IF Has(m, key) THEN Get(m, key) ELSE EmptyStr

\* SameValue with a fault: an empty value is never skipped
SameValueNonEmpty(currentValue, defaultValue) ==
    currentValue = defaultValue /\ currentValue # EmptyStr

\* currentValue === defaultValue: the field is skipped
SameValue(currentValue, defaultValue) == currentValue = defaultValue

\* the type of the entry of a field whose values differ
DiffType(currentValue, defaultValue) ==
    IF defaultValue = EmptyStr /\ currentValue # EmptyStr THEN "added"
    ELSE IF currentValue = EmptyStr /\ defaultValue # EmptyStr THEN "removed"
    ELSE "modified"

\* new Set([...Object.keys(config), ...Object.keys(defaults)]), in order
AllKeys(conf, defaults) ==
    KeySeq(conf) \o SelectSeq(KeySeq(defaults), LAMBDA key : ~Has(conf, key))

RECURSIVE DiffLoop(_, _, _)
\* the loop of computeDiff over allKeys: the entries pushed, in order
DiffLoop(keys, conf, defaults) ==
    IF keys = <<>> THEN <<>>
    ELSE LET fieldName    == Head(keys)
             currentValue == ValueOr(conf, fieldName)
             defaultValue == ValueOr(defaults, fieldName)
         IN  (IF SameValue(currentValue, defaultValue) THEN <<>>
              ELSE << [ field |-> fieldName,
                        category |-> getFieldCategory(fieldName),
                        type |-> DiffType(currentValue, defaultValue),
                        currentValue |-> currentValue,
                        defaultValue |-> defaultValue ] >>)
             \o DiffLoop(Tail(keys), conf, defaults)

\* CompareEntries with a fault: the categories are not compared
CompareEntriesByField(a, b) == localeCompare(a.field, b.field)

\* the comparator of entries.sort: negative when a sorts before b
CompareEntries(a, b) ==
    IF a.category # b.category THEN localeCompare(a.category, b.category)
    ELSE localeCompare(a.field, b.field)

RECURSIVE InsertSorted(_, _)
InsertSorted(sorted, e) ==
    IF sorted = <<>> THEN <<e>>
    ELSE IF CompareEntries(e, Head(sorted)) < 0 THEN <<e>> \o sorted
    ELSE <<Head(sorted)>> \o InsertSorted(Tail(sorted), e)

RECURSIVE SortEntries(_)
\* entries.sort(comparator): a stable sort
SortEntries(entries) ==
    IF entries = <<>> THEN <<>>
    ELSE InsertSorted(SortEntries(SubSeq(entries, 1, Len(entries) - 1)),
                      entries[Len(entries)])

\* computeDiff(config, defaults)
computeDiff(conf, defaults) ==
    LET entries == SortEntries(DiffLoop(AllKeys(conf, defaults), conf, defaults))
    IN  [ entries |-> entries,
          totalChanges |-> Len(entries),
          hasChanges |-> Len(entries) > 0 ]

\* Objects have identity: h is the sequence of the maps allocated so far and
\* a reference is an index into it.  A revert returns the heap it leaves and
\* the reference it returns.

\* revertField with a fault: a field the defaults lack is blanked, not deleted
revertFieldBlank(h, fieldName, c, d) ==
    [ heap |-> Append(h, Put(h[c], fieldName, ValueOr(h[d], fieldName))),
      ref |-> Len(h) + 1 ]

\* revertField with a fault: the default value is never written
revertFieldKeep(h, fieldName, c, d) ==
    LET newConfig == h[c]
        reverted  == IF Has(h[d], fieldName) THEN newConfig
                     ELSE Delete(newConfig, fieldName)
    IN  [ heap |-> Append(h, reverted), ref |-> Len(h) + 1 ]

\* revertField(field, config, defaults), config and defaults given by reference
revertField(h, fieldName, c, d) ==
    LET newConfig == h[c]
        reverted  == IF Has(h[d], fieldName)
                     THEN Put(newConfig, fieldName, Get(h[d], fieldName))
                     ELSE Delete(newConfig, fieldName)
    IN  [ heap |-> Append(h, reverted), ref |-> Len(h) + 1 ]

\* revertAll with a fault: the defaults merged over the config
revertAllMerge(h, c, d) ==
    [ heap |-> Append(h, PutAll(h[c], h[d])), ref |-> Len(h) + 1 ]

\* revertAll(_config, defaults): { ...defaults }
revertAll(h, c, d) == [ heap |-> Append(h, h[d]), ref |-> Len(h) + 1 ]


----------------------------------------------------------------------------
(* lib/n8n-config.ts: the output generator.  A generated text is a         *)
(* sequence of strings: the pieces of the template literals (a line break  *)
(* is always the piece "\n"), the key names, and the characters of the     *)
(* values interpolated between them.                                        *)

S_postgres == <<"p","o","s","t","g","r","e","s">>
S_password == <<"p","a","s","s","w","o","r","d">>
S_n8n      == <<"n","8","n">>
S_secret   == <<"s","e","c","r","e","t">>
S_key      == <<"k","e","y">>
S_token    == <<"t","o","k","e","n">>
S_credential == <<"c","r","e","d","e","n","t","i","a","l">>
S_pass     == <<"p","a","s","s">>
S_1_0_0    == <<"1",".","0",".","0">>
S_3_8      == <<"3",".","8">>
S_3_7      == <<"3",".","7">>
S_2_1      == <<"2",".","1">>
S_9000     == <<"9","0","0","0">>

\* the regular expressions /word/i and /word$/i
SENSITIVE_PATTERNS ==
    << [word |-> S_password,   atEnd |-> FALSE],
       [word |-> S_secret,     atEnd |-> FALSE],
       [word |-> S_key,        atEnd |-> FALSE],
       [word |-> S_token,      atEnd |-> FALSE],
       [word |-> S_credential, atEnd |-> FALSE],
       [word |-> S_pass,       atEnd |-> TRUE] >>

SECRET_PLACEHOLDER == <<"*","*","*","*","*","*","*","*">>

LowerCase ==
    <<"a","b","c","d","e","f","g","h","i","j","k","l","m",
      "n","o","p","q","r","s","t","u","v","w","x","y","z">>

\* the i flag: characters are compared without case
FoldCase(s) ==
    [i \in 1..Len(s) |->
        IF Includes(UpperCase, s[i]) THEN LowerCase[IndexIn(UpperCase, s[i])]
        ELSE s[i]]

\* PatternTest with a fault: the "$" of a pattern is ignored
PatternTestUnanchored(pattern, s) ==
    LET folded == FoldCase(s)
    IN  \E i \in 1..(Len(s) - Len(pattern.word) + 1) :
            SubSeq(folded, i, i + Len(pattern.word) - 1) = pattern.word

\* pattern.test(s)
PatternTest(pattern, s) ==
    LET folded == FoldCase(s)
    IN  \E i \in 1..(Len(s) - Len(pattern.word) + 1) :
            /\ SubSeq(folded, i, i + Len(pattern.word) - 1) = pattern.word
            /\ pattern.atEnd => i + Len(pattern.word) - 1 = Len(s)

isSensitiveField(fieldName) ==
    \E i \in 1..Len(SENSITIVE_PATTERNS) :
        PatternTest(SENSITIVE_PATTERNS[i], Spell(fieldName))

\* maskSensitiveValues(entries, maskSecrets)
maskSensitiveValues(entries, maskSecrets) ==
    IF ~maskSecrets THEN entries
    ELSE [i \in 1..Len(entries) |->
            IF isSensitiveField(entries[i].k) /\ entries[i].v # EmptyStr
            THEN [k |-> entries[i].k, v |-> SECRET_PLACEHOLDER]
            ELSE entries[i]]

\* a string is truthy unless it is undefined or empty: x || fallback
OrElse(x, fallback) == IF x = Undefined \/ x = EmptyStr THEN fallback ELSE x

\* an optional boolean option is "undefined", "true" or "false": x ?? false
OrFalse(x) == x = "true"

\* a template line: its text and the line break
Ln(text) == <<text, "\n">>

RECURSIVE Join(_, _)
\* texts.join(sep)
Join(texts, sep) ==
    IF texts = <<>> THEN <<>>
    ELSE IF Len(texts) = 1 THEN texts[1]
    ELSE texts[1] \o sep \o Join(Tail(texts), sep)

\* new Date().toISOString() at clock reading t (seconds of one minute)
toISOString(t) ==
    << "2024-01-01T00:00:0",
       <<"0","1","2","3","4","5","6","7","8","9">>[t + 1],
       ".000Z" >>

\* generateHeader(format, wizardVersion, includeComments) at clock reading t
generateHeader(format, wizardVersion, includeComments, t) ==
    IF ~includeComments /\ format # "env" THEN <<>>
    ELSE
      LET version == OrElse(wizardVersion, S_1_0_0)
      IN  CASE format = "env" ->
                 <<"# Generated by n8n Configuration Wizard v">> \o version
                 \o <<"\n", "# Timestamp: ">> \o toISOString(t)
                 \o <<"\n", "#", "\n">>
            [] format = "docker-compose" /\ includeComments ->
                 <<"# Generated by n8n Configuration Wizard v">> \o version
                 \o <<"\n", "# Timestamp: ">> \o toISOString(t)
                 \o <<"\n", "#", "\n">>
            [] format = "docker-run" /\ includeComments ->
                 <<"# Generated by n8n Configuration Wizard v">> \o version
                 \o <<"\n", "# Timestamp: ">> \o toISOString(t) \o <<"\n">>
            [] format = "kubernetes" /\ includeComments ->
                 <<"# Generated by n8n Configuration Wizard v">> \o version
                 \o <<"\n", "# Timestamp: ">> \o toISOString(t) \o <<"\n">>
                 \o Ln("# This manifest includes a ConfigMap and Deployment for n8n")
                 \o Ln("---")
            [] OTHER -> <<>>

\* generateEnvOutput(entries, options)
generateEnvOutput(entries, opts, t) ==
    generateHeader("env", opts.wizardVersion, TRUE, t)
    \o Join([i \in 1..Len(entries) |->
                <<entries[i].k, "=">> \o entries[i].v], <<"\n">>)

\* IsPostgres with a fault: any DB_TYPE that is set switches the block on
IsPostgresWhenSet(conf) == OrElse(Get(conf, "DB_TYPE"), EmptyStr) # EmptyStr

\* config.DB_TYPE === "postgresdb"
IsPostgres(conf) == Get(conf, "DB_TYPE") = S_postgresdb

\* config.EXECUTIONS_MODE === "queue"
IsQueue(conf) == Get(conf, "EXECUTIONS_MODE") = S_queue

\* PublishedPort with a fault: no fallback for an empty N8N_PORT
PublishedPortRaw(conf) ==
    IF Has(conf, "N8N_PORT") THEN Get(conf, "N8N_PORT") ELSE S_5678

\* config.N8N_PORT || "5678"
PublishedPort(conf) == OrElse(Get(conf, "N8N_PORT"), S_5678)

\* generateDockerComposeOutput(config, entries, options)
generateDockerComposeOutput(conf, entries, opts, t) ==
    LET composeVersion  == OrElse(opts.composeVersion, S_3_8)
        includeComments == OrFalse(opts.includeComments)
        header == generateHeader("docker-compose", opts.wizardVersion,
                                 includeComments, t)
        envVars == Join([i \in 1..Len(entries) |->
                            <<"      - ", entries[i].k, "=">> \o entries[i].v],
                        <<"\n">>)
        n8nServiceComment ==
            IF includeComments
            THEN Ln("  # n8n workflow automation service")
                 \o Ln("  # Documentation: https://docs.n8n.io/")
            ELSE <<>>
        volumesComment ==
            IF includeComments THEN Ln("# Persistent volumes for data storage")
            ELSE <<>>
        postgresComment ==
            IF includeComments
            THEN Ln("  # PostgreSQL database for n8n data persistence")
            ELSE <<>>
        redisComment ==
            IF includeComments THEN Ln("  # Redis for queue mode execution")
            ELSE <<>>
    IN  header \o <<"version: '">> \o composeVersion \o <<"'", "\n", "\n">>
        \o Ln("services:")
        \o n8nServiceComment \o Ln("  n8n:")
        \o Ln("    image: docker.n8n.io/n8nio/n8n")
        \o Ln("    restart: always")
        \o Ln("    ports:")
        \o <<"      - \"">> \o PublishedPort(conf) \o <<":5678\"", "\n">>
        \o Ln("    environment:")
        \o envVars \o <<"\n">>
        \o Ln("    volumes:")
        \o Ln("      - n8n_data:/home/node/.n8n")
        \o (IF IsPostgres(conf)
            THEN <<"\n">> \o postgresComment \o Ln("  postgres:")
                 \o Ln("    image: postgres:15-alpine")
                 \o Ln("    restart: always")
                 \o Ln("    environment:")
                 \o <<"      - POSTGRES_USER=">>
                 \o OrElse(Get(conf, "DB_POSTGRESDB_USER"), S_postgres)
                 \o <<"\n", "      - POSTGRES_PASSWORD=">>
                 \o OrElse(Get(conf, "DB_POSTGRESDB_PASSWORD"), S_password)
                 \o <<"\n", "      - POSTGRES_DB=">>
                 \o OrElse(Get(conf, "DB_POSTGRESDB_DATABASE"), S_n8n)
                 \o <<"\n">>
                 \o Ln("    volumes:")
                 \o Ln("      - postgres_data:/var/lib/postgresql/data")
            ELSE <<>>)
        \o (IF IsQueue(conf)
            THEN <<"\n">> \o redisComment \o Ln("  redis:")
                 \o Ln("    image: redis:7-alpine")
                 \o Ln("    restart: always")
                 \o Ln("    volumes:")
                 \o Ln("      - redis_data:/data")
            ELSE <<>>)
        \o <<"\n">> \o volumesComment \o <<"volumes:", "\n", "  n8n_data:">>
        \o (IF IsPostgres(conf) THEN <<"\n", "  postgres_data:">> ELSE <<>>)
        \o (IF IsQueue(conf) THEN <<"\n", "  redis_data:">> ELSE <<>>)

\* generateDockerRunOutput(config, entries, options)
generateDockerRunOutput(conf, entries, opts, t) ==
    LET includeComments == OrFalse(opts.includeComments)
        header == generateHeader("docker-run", opts.wizardVersion,
                                 includeComments, t)
        envFlags == Join([i \in 1..Len(entries) |->
                             <<"-e ", entries[i].k, "=\"">> \o entries[i].v
                             \o <<"\"">>],
                         <<" \\", "\n", "  ">>)
    IN  header
        \o Ln("docker run -d \\")
        \o Ln("  --name n8n \\")
        \o Ln("  --restart always \\")
        \o <<"  -p ">> \o PublishedPort(conf) \o <<":5678 \\", "\n">>
        \o <<"  ">> \o envFlags \o <<" \\", "\n">>
        \o Ln("  -v n8n_data:/home/node/.n8n \\")
        \o <<"  docker.n8n.io/n8nio/n8n">>

RECURSIVE EscapeQuotes(_)
\* value.replace(/"/g, '\\"')
EscapeQuotes(s) ==
    IF s = <<>> THEN <<>>
    ELSE (IF Head(s) = "\"" THEN <<"\\", "\"">> ELSE <<Head(s)>>)
         \o EscapeQuotes(Tail(s))

\* EnvItem with a fault: the value inlined in the Deployment
EnvItemInline(e) ==
    <<"        - name: ", e.k, "\n", "          value: \"">> \o e.v \o <<"\"">>

\* one item of envFromConfigMap
EnvItem(e) ==
    << "        - name: ", e.k, "\n",
       "          valueFrom:", "\n",
       "            configMapKeyRef:", "\n",
       "              name: n8n-config", "\n",
       "              key: ", e.k >>

\* generateKubernetesOutput(config, entries, options)
generateKubernetesOutput(conf, entries, opts, t) ==
    LET includeComments == OrFalse(opts.includeComments)
        header == generateHeader("kubernetes", opts.wizardVersion,
                                 includeComments, t)
        configMapData ==
            Join([i \in 1..Len(entries) |->
                     <<"  ", entries[i].k, ": \"">>
                     \o EscapeQuotes(entries[i].v) \o <<"\"">>], <<"\n">>)
        envFromConfigMap ==
            Join([i \in 1..Len(entries) |-> EnvItem(entries[i])], <<"\n">>)
        configMapComment ==
            IF includeComments
            THEN Ln("# ConfigMap containing n8n environment variables")
            ELSE <<>>
        deploymentComment ==
            IF includeComments
            THEN Ln("# Deployment for n8n workflow automation")
            ELSE <<>>
    IN  header \o configMapComment
        \o Ln("apiVersion: v1")
        \o Ln("kind: ConfigMap")
        \o Ln("metadata:")
        \o Ln("  name: n8n-config")
        \o Ln("  labels:")
        \o Ln("    app: n8n")
        \o Ln("data:")
        \o configMapData \o <<"\n">>
        \o Ln("---")
        \o deploymentComment
        \o Ln("apiVersion: apps/v1")
        \o Ln("kind: Deployment")
        \o Ln("metadata:")
        \o Ln("  name: n8n")
        \o Ln("  labels:")
        \o Ln("    app: n8n")
        \o Ln("spec:")
        \o Ln("  replicas: 1")
        \o Ln("  selector:")
        \o Ln("    matchLabels:")
        \o Ln("      app: n8n")
        \o Ln("  template:")
        \o Ln("    metadata:")
        \o Ln("      labels:")
        \o Ln("        app: n8n")
        \o Ln("    spec:")
        \o Ln("      containers:")
        \o Ln("      - name: n8n")
        \o Ln("        image: docker.n8n.io/n8nio/n8n")
        \o Ln("        ports:")
        \o Ln("        - containerPort: 5678")
        \o Ln("        env:")
        \o envFromConfigMap \o <<"\n">>
        \o Ln("        volumeMounts:")
        \o Ln("        - name: n8n-data")
        \o Ln("          mountPath: /home/node/.n8n")
        \o Ln("      volumes:")
        \o Ln("      - name: n8n-data")
        \o Ln("        persistentVolumeClaim:")
        \o Ln("          claimName: n8n-data-pvc")
        \o Ln("---")
        \o Ln("apiVersion: v1")
        \o Ln("kind: Service")
        \o Ln("metadata:")
        \o Ln("  name: n8n")
        \o Ln("  labels:")
        \o Ln("    app: n8n")
        \o Ln("spec:")
        \o Ln("  type: ClusterIP")
        \o Ln("  ports:")
        \o Ln("  - port: 5678")
        \o Ln("    targetPort: 5678")
        \o Ln("  selector:")
        \o <<"    app: n8n">>

\* the argument formatOrOptions is a format string or an options object;
\* an option that is not given is undefined
NoOptions ==
    [ format |-> "undefined", composeVersion |-> Undefined,
      maskSecrets |-> "undefined", includeComments |-> "undefined",
      wizardVersion |-> Undefined ]

\* typeof formatOrOptions === "string" ? { format: formatOrOptions } : ...
OptionsOf(formatOrOptions) ==
    IF formatOrOptions.kind = "string"
    THEN [NoOptions EXCEPT !.format = formatOrOptions.format]
    ELSE [ format |-> formatOrOptions.format,
           composeVersion |-> formatOrOptions.composeVersion,
           maskSecrets |-> formatOrOptions.maskSecrets,
           includeComments |-> formatOrOptions.includeComments,
           wizardVersion |-> formatOrOptions.wizardVersion ]

\* KeepNonEmpty with a fault: nothing is filtered out
KeepAll(entries) == entries

\* Object.entries(config).filter(([, value]) => value !== "")
KeepNonEmpty(entries) == SelectSeq(entries, LAMBDA e : e.v # EmptyStr)

\* generateOutput(config, formatOrOptions) at clock reading t
generateOutput(conf, formatOrOptions, t) ==
    LET opts    == OptionsOf(formatOrOptions)
        entries == maskSensitiveValues(KeepNonEmpty(conf),
                                       OrFalse(opts.maskSecrets))
    IN  CASE opts.format = "env" -> generateEnvOutput(entries, opts, t)
          [] opts.format = "docker-compose" ->
                 generateDockerComposeOutput(conf, entries, opts, t)
          [] opts.format = "docker-run" ->
                 generateDockerRunOutput(conf, entries, opts, t)
          [] opts.format = "kubernetes" ->
                 generateKubernetesOutput(conf, entries, opts, t)
          [] OTHER -> <<>>

----------------------------------------------------------------------------
(* The validation calls as a state machine *)

\* what ret holds before any call
NoResult == [valid |-> TRUE, errors |-> <<>>, warnings |-> <<>>]
NoRet ==
    [ op |-> "none", ok |-> TRUE, result |-> NoResult, errors |-> <<>>,
      byField |-> <<>>, rules |-> <<>>, warm |-> FALSE ]

\* what dret holds before any call
NoDiff == [entries |-> <<>>, totalChanges |-> 0, hasChanges |-> FALSE]
NoDret == [op |-> "none", field |-> "", ref |-> 0, diff |-> NoDiff]

\* what out holds before any call
NoOut == [op |-> "none", text |-> <<>>]

\* what sret holds before any call
NoSret ==
    [ op |-> "none", id |-> 0, io |-> "ok", ok |-> TRUE, code |-> "none",
      result |-> 0, found |-> "absent",
      data |-> [ name |-> Undefined, description |-> Undefined,
                 icon |-> Undefined, categories |-> Undefined,
                 presets |-> Undefined ] ]

\* localStorage without the custom-templates key
NoItem == [state |-> "absent", templates |-> <<>>]

\* JSON null
Null == <<"null">>

\* what jret holds before any call
NoExport ==
    [version |-> Undefined, timestamp |-> Undefined, templateId |-> Undefined,
     config |-> <<>>]
NoParse == [success |-> FALSE, error |-> "none", data |-> NoExport]
NoJret ==
    [ op |-> "none", config |-> <<>>, templateId |-> Null, text |-> <<>>,
      result |-> NoParse ]

\* the other engines' variables while one runs
JsonIdle == jret = NoJret
WizIdle ==
    /\ step = "template" /\ selectedTemplate = "null"
    /\ showOutput = FALSE /\ showImport = FALSE /\ showDiff = FALSE
    /\ keydown = [canGenerateConfig |-> TRUE]
    /\ event = "none"
StoreIdle == localStorage = NoItem /\ nextId = 1 /\ sret = NoSret
GenIdle == options = [kind |-> "string", format |-> "env"] /\ now = 0 /\ out = NoOut
DiffIdle == heap = <<>> /\ cfg = 0 /\ defs = 0 /\ dret = NoDret
ValIdle ==
    /\ config = <<>> /\ fieldRulesCache = EmptyCache
    /\ argField = "" /\ argValue = EmptyStr /\ ret = NoRet

\* the keys and values configs are drawn from for validateConfig.  Keys are
\* environment variable names: none is a property name of Object.prototype
\* (for such a key "in" and "[]" read the prototype of the static tables)
ValuePool(key) ==
    CASE key = "DB_TYPE"         -> {EmptyStr, S_postgresdb, S_sqlite}
      [] key = "EXECUTIONS_MODE" -> {EmptyStr, S_queue, S_regular}
      [] key = "N8N_HOST"        -> {EmptyStr, S_localhost}
      [] key = "N8N_PORT"        -> {EmptyStr, S_5678, <<"x">>}
      [] key = "CUSTOM_VAR"      -> {EmptyStr, <<" ">>}
      [] OTHER                   -> {EmptyStr, <<" ">>, <<"7">>}

ValidateKeys ==
    { "N8N_HOST", "N8N_PORT", "DB_TYPE", "EXECUTIONS_MODE",
      "DB_POSTGRESDB_HOST", "DB_POSTGRESDB_PORT",
      "QUEUE_BULL_REDIS_PORT", "CUSTOM_VAR" }

EntriesOver(keys) ==
    UNION { {[k |-> key, v |-> val] : val \in ValuePool(key)} : key \in keys }

\* every ordered map of at most n entries over the keys
MapsOver(keys, n) ==
    UNION { {m \in [1..len -> EntriesOver(keys)] : WellFormedMap(m)} :
            len \in 0..n }

InitValidate ==
    /\ config \in MapsOver(ValidateKeys, MaxKeys)
    /\ fieldRulesCache = EmptyCache
    /\ argField = "" /\ argValue = EmptyStr
    /\ ret = NoRet
    /\ DiffIdle
    /\ GenIdle
    /\ StoreIdle
    /\ JsonIdle
    /\ WizIdle

CallValidateConfig ==
    /\ ret' = [NoRet EXCEPT !.op = "validateConfig",
                   !.result = validateConfig(fieldRulesCache, config)]
    /\ fieldRulesCache' = CacheAfterValidate(fieldRulesCache, config)
    /\ UNCHANGED <<config, argField, argValue, diffVars, genVars, storeVars, jsonVars, wizVars>>

CallCanGenerate ==
    /\ ret' = [NoRet EXCEPT !.op = "canGenerate",
                   !.ok = canGenerate(fieldRulesCache, config)]
    /\ fieldRulesCache' = CacheAfterValidate(fieldRulesCache, config)
    /\ UNCHANGED <<config, argField, argValue, diffVars, genVars, storeVars, jsonVars, wizVars>>

CallGetValidationErrorsByField ==
    /\ ret' = [NoRet EXCEPT !.op = "getValidationErrorsByField",
                   !.byField = getValidationErrorsByField(fieldRulesCache, config)]
    /\ fieldRulesCache' = CacheAfterValidate(fieldRulesCache, config)
    /\ UNCHANGED <<config, argField, argValue, diffVars, genVars, storeVars, jsonVars, wizVars>>

\* clearFieldRulesCache()
ClearFieldRulesCache ==
    /\ fieldRulesCache # EmptyCache
    /\ fieldRulesCache' = EmptyCache
    /\ UNCHANGED <<config, argField, argValue, ret, diffVars, genVars, storeVars, jsonVars, wizVars>>

NextValidate ==
    \/ CallValidateConfig
    \/ CallCanGenerate
    \/ CallGetValidationErrorsByField

SpecValidate == InitValidate /\ [][NextValidate]_vars

----------------------------------------------------------------------------
(* validateField on one field and one value *)

Range(list) == {list[i] : i \in 1..Len(list)}

\* every classified field name, and one the tables do not know
FieldUniverse ==
    Range(REQUIRED_FIELDS) \cup Range(NUMERIC_FIELDS) \cup Range(BOOLEAN_FIELDS)
    \cup DOMAIN ENUM_VALUES \cup Range(POSTGRES_REQUIRED_FIELDS)
    \cup Range(REDIS_REQUIRED_FIELDS) \cup {"CUSTOM_VAR"}

\* the characters generated values are made of
Alphabet == {"-", "7", " "}

GeneratedValues == UNION { [1..len -> Alphabet] : len \in 0..MaxLen }

LiteralValues ==
    UNION { Range(ENUM_VALUES[f]) : f \in DOMAIN ENUM_VALUES }
    \cup {S_true, S_false, S_True, S_yes, S_localhost, S_5678}

\* the configs validateField is handed: what the dependency rules read
GateConfigs ==
    { <<>>,
      <<[k |-> "DB_TYPE", v |-> S_postgresdb]>>,
      <<[k |-> "DB_TYPE", v |-> S_sqlite]>>,
      <<[k |-> "EXECUTIONS_MODE", v |-> S_queue]>>,
      <<[k |-> "DB_TYPE", v |-> S_postgresdb],
        [k |-> "EXECUTIONS_MODE", v |-> S_queue]>> }

InitField ==
    /\ config \in GateConfigs
    /\ argField \in FieldUniverse
    /\ argValue \in GeneratedValues \cup LiteralValues
    /\ fieldRulesCache = EmptyCache
    /\ ret = NoRet
    /\ DiffIdle
    /\ GenIdle
    /\ StoreIdle
    /\ JsonIdle
    /\ WizIdle

CallValidateField ==
    /\ ret' = [NoRet EXCEPT !.op = "validateField",
                   !.errors = validateField(fieldRulesCache, argField,
                                            argValue, config)]
    /\ fieldRulesCache' = CacheAfterGet(fieldRulesCache, argField)
    /\ UNCHANGED <<config, argField, argValue, diffVars, genVars, storeVars, jsonVars, wizVars>>

CallGetFieldRules ==
    /\ ret' = [NoRet EXCEPT !.op = "getFieldRules",
                   !.rules = getFieldRules(fieldRulesCache, argField)]
    /\ fieldRulesCache' = CacheAfterGet(fieldRulesCache, argField)
    /\ UNCHANGED <<config, argField, argValue, diffVars, genVars, storeVars, jsonVars, wizVars>>

NextField ==
    \/ CallValidateField
    \/ CallGetFieldRules
    \/ ClearFieldRulesCache

SpecField == InitField /\ [][NextField]_vars

----------------------------------------------------------------------------
(* Claims about the validation engine *)

PgText    == " is required when using PostgreSQL database"
RedisText == " is required when using Queue mode"

\* the errors of a list that name a field
ErrorsOf(errors, f) == SelectSeq(errors, LAMBDA e : e.field = f)
\* the errors of a list that name a field and carry a message text
ErrorsWith(errors, f, text) ==
    SelectSeq(errors, LAMBDA e : e.field = f /\ e.message[2] = text)

\* the field is not a key, or its value is blank after trimming
AbsentOrBlank(conf, f) == ~Has(conf, f) \/ Trim(Get(conf, f)) = EmptyStr

PostgresOn(conf) == Has(conf, "DB_TYPE") /\ Get(conf, "DB_TYPE") = S_postgresdb
QueueOn(conf) ==
    Has(conf, "EXECUTIONS_MODE") /\ Get(conf, "EXECUTIONS_MODE") = S_queue

\* C1: with DB_TYPE = "postgresdb" every Postgres-required field that is
\* absent or blank has an error and valid is false; likewise the
\* Redis-required fields with EXECUTIONS_MODE = "queue".
C1_DependenciesReported ==
    ret.op = "validateConfig" =>
        /\ PostgresOn(config) =>
              \A f \in Range(POSTGRES_REQUIRED_FIELDS) :
                 AbsentOrBlank(config, f) =>
                    /\ Len(ErrorsOf(ret.result.errors, f)) >= 1
                    /\ ret.result.valid = FALSE
        /\ QueueOn(config) =>
              \A f \in Range(REDIS_REQUIRED_FIELDS) :
                 AbsentOrBlank(config, f) =>
                    /\ Len(ErrorsOf(ret.result.errors, f)) >= 1
                    /\ ret.result.valid = FALSE

\* the scenario {DB_TYPE: "postgresdb"}: four fields absent, four errors
C1_Witness ==
    /\ ret.op = "validateConfig"
    /\ config = <<[k |-> "DB_TYPE", v |-> S_postgresdb]>>
    /\ Len(ret.result.errors) = 4
    /\ ret.result.valid = FALSE

\* C2: when DB_TYPE is not "postgresdb" (or absent) no error carries the
\* Postgres dependency message, whatever the Postgres fields hold;
\* likewise the Redis message when EXECUTIONS_MODE is not "queue".
C2_NoDependencyErrorWhenGateOff ==
    ret.op = "validateConfig" =>
        /\ ~PostgresOn(config) =>
              \A i \in 1..Len(ret.result.errors) :
                 ret.result.errors[i].message[2] # PgText
        /\ ~QueueOn(config) =>
              \A i \in 1..Len(ret.result.errors) :
                 ret.result.errors[i].message[2] # RedisText

\* DB_TYPE = "sqlite" with a blank Postgres port: a numeric error only
C2_Witness ==
    /\ ret.op = "validateConfig"
    /\ Get(config, "DB_TYPE") = S_sqlite
    /\ Get(config, "DB_POSTGRESDB_PORT") = <<" ">>
    /\ Len(ErrorsOf(ret.result.errors, "DB_POSTGRESDB_PORT")) = 1

\* C3: errors holds at most one dependency error per Postgres- or
\* Redis-required field, and exactly one when the gate is on and the field
\* is absent or blank.
C3_OneDependencyErrorPerField ==
    ret.op = "validateConfig" =>
        /\ \A f \in Range(POSTGRES_REQUIRED_FIELDS) :
              LET n == Len(ErrorsWith(ret.result.errors, f, PgText))
              IN  /\ n <= 1
                  /\ (PostgresOn(config) /\ AbsentOrBlank(config, f)) => n = 1
        /\ \A f \in Range(REDIS_REQUIRED_FIELDS) :
              LET n == Len(ErrorsWith(ret.result.errors, f, RedisText))
              IN  /\ n <= 1
                  /\ (QueueOn(config) /\ AbsentOrBlank(config, f)) => n = 1

\* a blank Postgres port under postgresdb: the field pass reports the
\* numeric and the dependency error, the dependency pass adds nothing
C3_Witness ==
    /\ ret.op = "validateConfig"
    /\ PostgresOn(config)
    /\ Get(config, "DB_POSTGRESDB_PORT") = <<" ">>
    /\ Len(ErrorsOf(ret.result.errors, "DB_POSTGRESDB_PORT")) = 2
    /\ Len(ErrorsWith(ret.result.errors, "DB_POSTGRESDB_PORT", PgText)) = 1

\* C4: an error whose field is not a key of config comes from a dependency
\* pass; a required field that is absent has no error, one that is present
\* with value "" has the required error; the empty config is valid.
C4_FieldErrorsOnlyForPresentKeys ==
    ret.op = "validateConfig" =>
        /\ \A i \in 1..Len(ret.result.errors) :
              LET e == ret.result.errors[i]
              IN  ~Has(config, e.field) =>
                     \/ e.message[2] = PgText /\ PostgresOn(config)
                     \/ e.message[2] = RedisText /\ QueueOn(config)
        /\ \A f \in Range(REQUIRED_FIELDS) :
              /\ ~Has(config, f) => ErrorsOf(ret.result.errors, f) = <<>>
              /\ (Has(config, f) /\ Get(config, f) = EmptyStr) =>
                    Len(ErrorsWith(ret.result.errors, f, " is required")) = 1
        /\ config = <<>> => ret.result.valid

\* N8N_HOST present and empty, DB_TYPE absent
C4_Witness ==
    /\ ret.op = "validateConfig"
    /\ Has(config, "N8N_HOST") /\ Get(config, "N8N_HOST") = EmptyStr
    /\ ~Has(config, "DB_TYPE")
    /\ Len(ret.result.errors) = 1

\* C5: a config in which a required field (N8N_HOST, N8N_PORT, DB_TYPE) is
\* absent or empty cannot be generated: canGenerate returns false.
C5_RequiredFieldsBeforeGenerate ==
    ret.op = "canGenerate" =>
        ((\E f \in Range(REQUIRED_FIELDS) :
             ~Has(config, f) \/ Get(config, f) = EmptyStr)
         => ret.ok = FALSE)

\* an optional minus sign followed by one or more digits
IntegerShaped(s) ==
    \E sign \in {0, 1} :
        /\ Len(s) >= sign + 1
        /\ sign = 1 => s[1] = "-"
        /\ \A i \in (sign + 1)..Len(s) : IsDigit(s[i])

\* C6: validateField on a Numeric field gives no numeric error for "" or an
\* integer-shaped value and exactly one for every other value; on a Boolean
\* field only "true", "false" and "" give no boolean error, every other
\* value exactly one; on an Enum field only "" and the members of its list
\* give no enum error, every other value exactly one.
C6_TypeRules ==
    ret.op = "validateField" =>
        /\ argField \in Range(NUMERIC_FIELDS) =>
              Len(ErrorsWith(ret.errors, argField, " must be a valid number"))
                = IF argValue = EmptyStr \/ IntegerShaped(argValue) THEN 0 ELSE 1
        /\ argField \in Range(BOOLEAN_FIELDS) =>
              Len(ErrorsWith(ret.errors, argField, " must be 'true' or 'false'"))
                = IF argValue \in {EmptyStr, S_true, S_false} THEN 0 ELSE 1
        /\ argField \in DOMAIN ENUM_VALUES =>
              Len(ErrorsWith(ret.errors, argField, " must be one of: "))
                = IF argValue = EmptyStr
                     \/ argValue \in Range(ENUM_VALUES[argField]) THEN 0 ELSE 1

\* a numeric field given digits followed by a space: one numeric error
C6_Witness ==
    /\ ret.op = "validateField"
    /\ argField = "N8N_PROXY_HOPS"
    /\ argValue = <<"-", "7", " ">>
    /\ Len(ret.errors) = 1

\* the fields some error of a list names
ErrorFields(errors) == {errors[i].field : i \in 1..Len(errors)}

\* C7: canGenerate returns validateConfig's valid; valid holds exactly when
\* errors is empty; warnings is empty; the map of
\* getValidationErrorsByField has a key for exactly the fields with an
\* error, each with that field's errors in the order of the flat list, so
\* it is empty exactly when the config is valid.
C7_ResultShape ==
    LET flat == validateConfig(EmptyCache, config)
    IN  /\ ret.op = "canGenerate" => ret.ok = flat.valid
        /\ ret.op = "validateConfig" =>
              /\ ret.result.valid = (ret.result.errors = <<>>)
              /\ ret.result.warnings = <<>>
        /\ ret.op = "getValidationErrorsByField" =>
              /\ WellFormedMap(ret.byField)
              /\ KeySet(ret.byField) = ErrorFields(flat.errors)
              /\ \A f \in KeySet(ret.byField) :
                    Get(ret.byField, f) = ErrorsOf(flat.errors, f)
              /\ (ret.byField = <<>>) = flat.valid

\* a field with two errors, grouped
C7_Witness ==
    /\ ret.op = "getValidationErrorsByField"
    /\ PostgresOn(config)
    /\ Has(ret.byField, "DB_POSTGRESDB_PORT")
    /\ Len(Get(ret.byField, "DB_POSTGRESDB_PORT")) = 2

----------------------------------------------------------------------------
(* The diff calls as a state machine *)

\* the keys and values the maps of the diff engine are drawn from:
\* two fields of one category and a key no category lists
DiffKeys == {"N8N_HOST", "N8N_PORT", "CUSTOM_VAR"}
DiffValues == {EmptyStr, <<"a">>, <<"b">>}

DiffMaps ==
    LET entries == {[k |-> key, v |-> val] : key \in DiffKeys, val \in DiffValues}
    IN  UNION { {m \in [1..len -> entries] : WellFormedMap(m)} :
                len \in 0..MaxDiffKeys }

\* config and defaults are two objects, or one object passed twice
InitDiff ==
    /\ \/ heap \in {<<c, d>> : c \in DiffMaps, d \in DiffMaps} /\ cfg = 1 /\ defs = 2
       \/ heap \in {<<c>> : c \in DiffMaps} /\ cfg = 1 /\ defs = 1
    /\ dret = NoDret
    /\ ValIdle
    /\ GenIdle
    /\ StoreIdle
    /\ JsonIdle
    /\ WizIdle

\* the heap holds the arguments only: no revert has returned a map yet
NoRevertYet == \A id \in DOMAIN heap : id \in {cfg, defs}

CallComputeDiff ==
    /\ dret' = [NoDret EXCEPT !.op = "computeDiff",
                    !.diff = computeDiff(heap[cfg], heap[defs])]
    /\ UNCHANGED <<heap, cfg, defs, valVars, genVars, storeVars, jsonVars, wizVars>>

CallRevertField ==
    \E fieldName \in DiffKeys :
        /\ NoRevertYet
        /\ heap' = revertField(heap, fieldName, cfg, defs).heap
        /\ dret' = [NoDret EXCEPT !.op = "revertField", !.field = fieldName,
                        !.ref = revertField(heap, fieldName, cfg, defs).ref]
        /\ UNCHANGED <<cfg, defs, valVars, genVars, storeVars, jsonVars, wizVars>>

CallRevertAll ==
    /\ NoRevertYet
    /\ heap' = revertAll(heap, cfg, defs).heap
    /\ dret' = [NoDret EXCEPT !.op = "revertAll",
                    !.ref = revertAll(heap, cfg, defs).ref]
    /\ UNCHANGED <<cfg, defs, valVars, genVars, storeVars, jsonVars, wizVars>>

\* computeDiff(revertField(field, config, defaults), defaults): the map a
\* revertField returned is diffed against the same defaults
CallComputeDiffOfReverted ==
    /\ dret.op = "revertField"
    /\ dret' = [dret EXCEPT !.op = "rediff",
                    !.diff = computeDiff(heap[dret.ref], heap[defs])]
    /\ UNCHANGED <<heap, cfg, defs, valVars, genVars, storeVars, jsonVars, wizVars>>

NextDiff ==
    \/ CallComputeDiff
    \/ CallRevertField
    \/ CallRevertAll
    \/ CallComputeDiffOfReverted

SpecDiff == InitDiff /\ [][NextDiff]_vars

----------------------------------------------------------------------------
(* Claims about the diff engine *)

\* the entries of a diff that name a field
EntriesOf(diff, f) == SelectSeq(diff.entries, LAMBDA e : e.field = f)

\* C8: computeDiff of a config against itself (the same object, or a map
\* equal to it) has no entries, totalChanges = 0 and hasChanges = FALSE.
C8_DiffReflexive ==
    (dret.op = "computeDiff" /\ heap[cfg] = heap[defs]) =>
        /\ dret.diff.entries = <<>>
        /\ dret.diff.totalChanges = 0
        /\ dret.diff.hasChanges = FALSE

\* one object passed twice, with an empty value and a key no category lists
C8_Witness ==
    /\ dret.op = "computeDiff"
    /\ cfg = defs
    /\ Has(heap[cfg], "CUSTOM_VAR")
    /\ \E key \in KeySet(heap[cfg]) : Get(heap[cfg], key) = EmptyStr
    /\ dret.diff.hasChanges = FALSE

\* a map without the keys whose value is ""
StripEmpty(m) == SelectSeq(m, LAMBDA e : e.v # EmptyStr)

\* C9: with cur and def the values of a key, "" standing for an absent key,
\* the diff has no entry for the key iff cur = def and else exactly one, of
\* type added iff def = "", removed iff cur = "", modified otherwise; so the
\* diff is the diff of the config without its keys set to "".
C9_DiffByValue ==
    dret.op = "computeDiff" =>
        /\ \A key \in DiffKeys :
              LET cur == IF Has(heap[cfg], key) THEN Get(heap[cfg], key)
                         ELSE EmptyStr
                  def == IF Has(heap[defs], key) THEN Get(heap[defs], key)
                         ELSE EmptyStr
                  es  == EntriesOf(dret.diff, key)
              IN  /\ (cur = def) = (es = <<>>)
                  /\ cur # def =>
                        /\ Len(es) = 1
                        /\ es[1].currentValue = cur
                        /\ es[1].defaultValue = def
                        /\ (es[1].type = "added") = (def = EmptyStr)
                        /\ (es[1].type = "removed") = (cur = EmptyStr)
                        /\ (es[1].type = "modified")
                              = (cur # EmptyStr /\ def # EmptyStr)
        /\ dret.diff = computeDiff(StripEmpty(heap[cfg]), heap[defs])

\* a key set to "" in config and to a value in defaults reads as removed
C9_Witness ==
    /\ dret.op = "computeDiff"
    /\ \E key \in KeySet(heap[cfg]) :
          /\ Get(heap[cfg], key) = EmptyStr
          /\ Has(heap[defs], key)
          /\ Len(EntriesOf(dret.diff, key)) = 1
          /\ EntriesOf(dret.diff, key)[1].type = "removed"

\* C10: revertAll returns a map that is a new object, deep-equal to
\* defaults (so without the keys of config that defaults lacks), and leaves
\* the config and defaults objects as they were.
C10_RevertAllCopiesDefaults ==
    [][ (dret.op # "revertAll" /\ dret'.op = "revertAll") =>
           /\ dret'.ref \in DOMAIN heap'
           /\ dret'.ref \notin DOMAIN heap
           /\ DeepEqual(heap'[dret'.ref], heap[defs])
           /\ \A key \in KeySet(heap[cfg]) \ KeySet(heap[defs]) :
                 ~Has(heap'[dret'.ref], key)
           /\ \A id \in DOMAIN heap : heap'[id] = heap[id]
           /\ cfg' = cfg /\ defs' = defs ]_vars

\* revertAll has returned, and config had a key that defaults lacks
C10_Witness ==
    /\ dret.op = "revertAll"
    /\ heap[defs] # <<>>
    /\ \E key \in KeySet(heap[cfg]) : ~Has(heap[defs], key)
    /\ dret.ref = 3
    /\ DeepEqual(heap[dret.ref], heap[defs])

\* C11: revertField returns a new object in which the field has the value
\* defaults[field] when the field is a key of defaults and is not a key
\* otherwise; every other key of config keeps its value, no other key
\* appears, and the config and defaults objects are left as they were.
C11_RevertFieldFrame ==
    [][ (dret.op # "revertField" /\ dret'.op = "revertField") =>
           LET f   == dret'.field
               res == heap'[dret'.ref]
           IN  /\ dret'.ref \in DOMAIN heap'
               /\ dret'.ref \notin DOMAIN heap
               /\ WellFormedMap(res)
               /\ Has(heap[defs], f) =>
                     Has(res, f) /\ Get(res, f) = Get(heap[defs], f)
               /\ ~Has(heap[defs], f) => ~Has(res, f)
               /\ \A key \in KeySet(heap[cfg]) \ {f} :
                     Has(res, key) /\ Get(res, key) = Get(heap[cfg], key)
               /\ KeySet(res) \subseteq KeySet(heap[cfg]) \cup {f}
               /\ \A id \in DOMAIN heap : heap'[id] = heap[id]
               /\ cfg' = cfg /\ defs' = defs ]_vars

\* a field of config that defaults lack is reverted: it is gone from the
\* returned map, the other key of config is still there
C11_Witness ==
    /\ dret.op = "revertField"
    /\ cfg # defs
    /\ Has(heap[cfg], dret.field)
    /\ ~Has(heap[defs], dret.field)
    /\ Len(heap[cfg]) = 2
    /\ Len(heap[dret.ref]) = 1
    /\ ~Has(heap[dret.ref], dret.field)

\* C12: the diff of revertField(field, config, defaults) against defaults
\* has no entry for field.
C12_RevertedFieldNotInDiff ==
    dret.op = "rediff" => EntriesOf(dret.diff, dret.field) = <<>>

\* the field differed before the revert, and the re-diff still has an entry
\* (for another field)
C12_Witness ==
    /\ dret.op = "rediff"
    /\ EntriesOf(computeDiff(heap[cfg], heap[defs]), dret.field) # <<>>
    /\ Has(heap[defs], dret.field)
    /\ dret.diff.hasChanges
    /\ EntriesOf(dret.diff, dret.field) = <<>>

----------------------------------------------------------------------------
(* The generator calls as a state machine *)

\* the keys and values configs are drawn from for generateOutput: what the
\* templates read, names the patterns match and names they do not, values
\* with a quote and with "=".  Values hold no line break.
GenPool(key) ==
    CASE key = "N8N_PORT"               -> {EmptyStr, S_9000}
      [] key = "DB_TYPE"                -> {S_postgresdb, S_sqlite}
      [] key = "EXECUTIONS_MODE"        -> {S_queue, S_regular}
      [] key = "DB_POSTGRESDB_PASSWORD" -> {EmptyStr, <<"s", "\"">>}
      [] key = "N8N_SMTP_PASS"          -> {<<"p">>}
      [] key = "PASSPORT_ID"            -> {<<"a", "=">>}
      [] key = "api_Token"              -> {<<"t">>}
      [] key = "MONKEY_NAME"            -> {EmptyStr, <<"m">>}

GenKeys ==
    { "N8N_PORT", "DB_TYPE", "EXECUTIONS_MODE", "DB_POSTGRESDB_PASSWORD",
      "N8N_SMTP_PASS", "PASSPORT_ID", "api_Token", "MONKEY_NAME" }

GenMaps ==
    LET entries == UNION { {[k |-> key, v |-> val] : val \in GenPool(key)} :
                           key \in GenKeys }
    IN  UNION { {m \in [1..len -> entries] : WellFormedMap(m)} :
                len \in 0..MaxGenKeys }

Formats == {"env", "docker-compose", "docker-run", "kubernetes"}

\* a format string (one of them no format the generator knows), or an
\* options object
GenOptions ==
    { [kind |-> "string", format |-> f] : f \in Formats \cup {"yaml"} }
    \cup
    { [ kind |-> "object", format |-> f, composeVersion |-> Undefined,
        maskSecrets |-> m, includeComments |-> c, wizardVersion |-> Undefined ] :
      f \in Formats, m \in {"true", "false"}, c \in {"undefined", "true"} }
    \cup
    { [ kind |-> "object", format |-> f, composeVersion |-> S_3_7,
        maskSecrets |-> "undefined", includeComments |-> "false",
        wizardVersion |-> S_2_1] : f \in Formats }
    \cup
    { [ kind |-> "object", format |-> "env", composeVersion |-> Undefined,
        maskSecrets |-> "undefined", includeComments |-> "undefined",
        wizardVersion |-> EmptyStr] }

InitGen ==
    /\ config \in GenMaps
    /\ options \in GenOptions
    /\ now = 0
    /\ out = NoOut
    /\ fieldRulesCache = EmptyCache
    /\ argField = "" /\ argValue = EmptyStr
    /\ ret = NoRet
    /\ DiffIdle
    /\ StoreIdle
    /\ JsonIdle
    /\ WizIdle

\* generateOutput(config, options): reads the arguments and the clock
CallGenerateOutput ==
    /\ out' = [op |-> "generateOutput",
               text |-> generateOutput(config, options, now)]
    /\ UNCHANGED <<config, options, now, fieldRulesCache, argField, argValue,
                   ret, diffVars, storeVars, jsonVars, wizVars>>

\* time passes between two calls
Tick ==
    /\ now < MaxClock
    /\ now' = now + 1
    /\ UNCHANGED <<config, options, out, fieldRulesCache, argField, argValue,
                   ret, diffVars, storeVars, jsonVars, wizVars>>

\* the calls at one reading of the clock
NextGen == CallGenerateOutput

SpecGen == InitGen /\ [][NextGen]_vars

\* the calls as time passes
NextGenClock ==
    \/ CallGenerateOutput
    \/ Tick

SpecGenClock == InitGen /\ [][NextGenClock]_vars

----------------------------------------------------------------------------
(* Claims about the output generator *)

\* how often a piece occurs in a text
Count(text, piece) == Cardinality({i \in 1..Len(text) : text[i] = piece})

RECURSIVE SplitFrom(_, _, _)
\* the parts of text from place start on
SplitFrom(text, sep, start) ==
    IF \A i \in start..Len(text) : text[i] # sep
    THEN <<SubSeq(text, start, Len(text))>>
    ELSE LET next == CHOOSE i \in start..Len(text) :
                        text[i] = sep /\ \A j \in start..(i - 1) : text[j] # sep
         IN  <<SubSeq(text, start, next - 1)>> \o SplitFrom(text, sep, next + 1)

\* the parts of a sequence between the occurrences of a separator
SplitOn(text, sep) == SplitFrom(text, sep, 1)

\* the lines of a text
Lines(text) == SplitOn(text, "\n")

\* how many of the lines are equal to a line
CountLines(lines, line) ==
    Cardinality({i \in 1..Len(lines) : lines[i] = line})

\* the lines that begin with the given pieces, in order
LinesStarting(lines, start) ==
    SelectSeq(lines,
              LAMBDA line : /\ Len(line) >= Len(start)
                            /\ SubSeq(line, 1, Len(start)) = start)

\* the format and the masking switch a call was given
FormatOf(o) == o.format
MaskOn(o) == o.kind = "object" /\ o.maskSecrets = "true"

\* the name holds the word somewhere, letters compared without case
NameContains(name, word) ==
    \E i, j \in 1..Len(Spell(name)) :
        FoldCase(SubSeq(Spell(name), i, j)) = word
\* the name ends in the word, letters compared without case
NameEndsIn(name, word) ==
    /\ Len(Spell(name)) >= Len(word)
    /\ FoldCase(SubSeq(Spell(name), Len(Spell(name)) - Len(word) + 1,
                       Len(Spell(name)))) = word

NameIsSensitive(name) ==
    \/ \E word \in {S_password, S_secret, S_key, S_token, S_credential} :
          NameContains(name, word)
    \/ NameEndsIn(name, S_pass)

\* the names of the generator's keys that are sensitive
SensitiveNames == {name \in GenKeys : NameIsSensitive(name)}

\* the keys of a config whose value is not ""
SurvivingKeys(conf) ==
    SelectSeq(KeySeq(conf), LAMBDA key : Get(conf, key) # EmptyStr)

\* the value a surviving key is to be shown with
ShownValue(conf, o, key) ==
    IF MaskOn(o) /\ key \in SensitiveNames THEN SECRET_PLACEHOLDER
    ELSE Get(conf, key)

\* the line that carries the entry key = v in a format
EntryLine(format, key, v) ==
    CASE format = "env"            -> <<key, "=">> \o v
      [] format = "docker-compose" -> <<"      - ", key, "=">> \o v
      [] format = "docker-run"     ->
             <<"  ", "-e ", key, "=\"">> \o v \o <<"\"", " \\">>
      [] format = "kubernetes"     ->
             <<"  ", key, ": \"">> \o EscapeQuotes(v) \o <<"\"">>

\* C13: in every format a key whose value is "" is named nowhere in the
\* generated text: not in a KEY=VALUE line, a compose list item, a -e flag,
\* a ConfigMap entry or a configMapKeyRef.
C13_EmptyValuesNotEmitted ==
    out.op = "generateOutput" =>
        \A key \in KeySet(config) :
            Get(config, key) = EmptyStr => Count(out.text, key) = 0

\* a config with an empty and a non-empty value: only the second is named
C13_Witness ==
    /\ out.op = "generateOutput"
    /\ FormatOf(options) = "kubernetes"
    /\ Len(config) = 2
    /\ Get(config, "MONKEY_NAME") = EmptyStr
    /\ Get(config, "DB_TYPE") = S_sqlite
    /\ Count(out.text, "DB_TYPE") = 3
    /\ Count(out.text, "MONKEY_NAME") = 0

\* C14: with maskSecrets true every surviving key with a sensitive name is
\* emitted with "********" and every other surviving key with its own
\* value; with maskSecrets false or omitted every surviving key is emitted
\* with its own value.
C14_MaskSensitiveOnly ==
    (out.op = "generateOutput" /\ FormatOf(options) \in Formats) =>
        LET lines == Lines(out.text)
        IN  \A key \in KeySet(config) :
              Get(config, key) # EmptyStr =>
                /\ CountLines(lines,
                       EntryLine(FormatOf(options), key,
                                 ShownValue(config, options, key))) = 1
                /\ Count(out.text, key)
                     = IF FormatOf(options) = "kubernetes" THEN 3 ELSE 1

\* masking on: a name ending in "pass" is masked, a name holding "pass"
\* elsewhere keeps its value
C14_Witness ==
    /\ out.op = "generateOutput"
    /\ MaskOn(options)
    /\ FormatOf(options) = "env"
    /\ KeySeq(config) = <<"N8N_SMTP_PASS", "PASSPORT_ID">>
    /\ CountLines(Lines(out.text),
                  <<"N8N_SMTP_PASS", "=">> \o SECRET_PLACEHOLDER) = 1
    /\ CountLines(Lines(out.text), <<"PASSPORT_ID", "=", "a", "=">>) = 1

\* the first place a piece occurs in a text (0 when it does not)
FirstAt(text, piece) ==
    IF Count(text, piece) = 0 THEN 0
    ELSE CHOOSE i \in 1..Len(text) :
            text[i] = piece /\ \A j \in 1..(i - 1) : text[j] # piece

\* C15: compose output has the postgres service block iff DB_TYPE is
\* exactly "postgresdb" and the redis service block iff EXECUTIONS_MODE is
\* exactly "queue"; the volumes section declares n8n_data always and
\* postgres_data, redis_data exactly when the matching block was emitted.
C15_ComposeBlocks ==
    (out.op = "generateOutput" /\ FormatOf(options) = "docker-compose") =>
        LET text     == out.text
            volumes  == FirstAt(text, "volumes:")
            declared(name) ==
                /\ Count(text, name) = 1
                /\ FirstAt(text, name) > volumes
        IN  /\ Count(text, "  postgres:") = (IF PostgresOn(config) THEN 1 ELSE 0)
            /\ Count(text, "  redis:") = (IF QueueOn(config) THEN 1 ELSE 0)
            /\ Count(text, "volumes:") = 1
            /\ declared("  n8n_data:")
            /\ IF Count(text, "  postgres:") = 1 THEN declared("  postgres_data:")
               ELSE Count(text, "  postgres_data:") = 0
            /\ IF Count(text, "  redis:") = 1 THEN declared("  redis_data:")
               ELSE Count(text, "  redis_data:") = 0

\* the scenario {EXECUTIONS_MODE: "queue"}: a queue block, no database block
C15_Witness ==
    /\ out.op = "generateOutput"
    /\ FormatOf(options) = "docker-compose"
    /\ config = <<[k |-> "EXECUTIONS_MODE", v |-> S_queue]>>
    /\ Count(out.text, "  redis:") = 1
    /\ Count(out.text, "  redis_data:") = 1
    /\ Count(out.text, "  postgres:") = 0

\* the -e flags a docker-run text is to carry, one line each, in the
\* insertion order of the config
ExpectedFlags(conf, o) ==
    [i \in 1..Len(SurvivingKeys(conf)) |->
        EntryLine("docker-run", SurvivingKeys(conf)[i],
                  ShownValue(conf, o, SurvivingKeys(conf)[i]))]

\* the docker-run text has its -e flags as expected and one port flag for p
RunFlags(p) ==
    LET lines == Lines(out.text)
    IN  /\ Count(out.text, "-e ") = Len(SurvivingKeys(config))
        /\ LinesStarting(lines, <<"  ", "-e ">>) = ExpectedFlags(config, options)
        /\ Count(out.text, "  -p ") = 1
        /\ LinesStarting(lines, <<"  -p ">>)
             = << <<"  -p ">> \o p \o <<":5678 \\">> >>

\* C16 as stated: one -e KEY="VALUE" flag per surviving entry in insertion
\* order, and one port flag -p P:5678 with P = config.N8N_PORT, 5678 when
\* N8N_PORT is absent.
C16_RunFlagsAsStated ==
    (out.op = "generateOutput" /\ FormatOf(options) = "docker-run") =>
        RunFlags(IF Has(config, "N8N_PORT") THEN Get(config, "N8N_PORT")
                 ELSE S_5678)

\* C16: docker-run output has exactly one -e KEY="VALUE" flag per surviving
\* entry, in insertion order, and one port flag -p P:5678 with
\* P = config.N8N_PORT, 5678 when N8N_PORT is absent or empty.
C16_RunFlags ==
    (out.op = "generateOutput" /\ FormatOf(options) = "docker-run") =>
        RunFlags(IF Has(config, "N8N_PORT") /\ Get(config, "N8N_PORT") # EmptyStr
                 THEN Get(config, "N8N_PORT") ELSE S_5678)

\* the scenario {N8N_PORT: "9000"}
C16_Witness ==
    /\ out.op = "generateOutput"
    /\ FormatOf(options) = "docker-run"
    /\ config = <<[k |-> "N8N_PORT", v |-> S_9000]>>
    /\ CountLines(Lines(out.text),
                  <<"  -p ", "9", "0", "0", "0", ":5678 \\">>) = 1
    /\ CountLines(Lines(out.text),
           <<"  ", "-e ", "N8N_PORT", "=\"", "9", "0", "0", "0", "\"", " \\">>) = 1
    /\ Count(out.text, "-e ") = 1

\* the pieces that open a comment line
CommentOpeners ==
    { "# Generated by n8n Configuration Wizard v", "# Timestamp: ",
      "# This manifest includes a ConfigMap and Deployment for n8n",
      "# ConfigMap containing n8n environment variables",
      "# Deployment for n8n workflow automation" }

\* the documents of a manifest: the line groups between the "---" lines,
\* those made of comment lines only left out
Documents(text) ==
    SelectSeq(SplitOn(Lines(text), <<"---">>),
              LAMBDA doc : \E i \in 1..Len(doc) :
                              /\ doc[i] # <<>>
                              /\ doc[i][1] \notin CommentOpeners)

HasLine(doc, line) == \E i \in 1..Len(doc) : doc[i] = line
LineCount(doc, line) == Cardinality({i \in 1..Len(doc) : doc[i] = line})
\* how often a piece occurs in the lines of a document
PieceCount(doc, piece) ==
    Cardinality(UNION { {<<i, j>> : j \in {n \in 1..Len(doc[i]) : doc[i][n] = piece}} :
                        i \in 1..Len(doc) })

\* the lines of the env item of a key
RefLines(key) ==
    << <<"        - name: ", key>>, <<"          valueFrom:">>,
       <<"            configMapKeyRef:">>, <<"              name: n8n-config">>,
       <<"              key: ", key>> >>

\* a config with every non-empty value replaced by one fixed value
Blind(conf) ==
    [i \in 1..Len(conf) |->
        IF conf[i].v = EmptyStr THEN conf[i] ELSE [k |-> conf[i].k, v |-> <<"x">>]]

\* C17: a Kubernetes text is a ConfigMap, a Deployment and a Service
\* document; every surviving key is once a ConfigMap data entry and once a
\* Deployment env item that refers to it by configMapKeyRef with the same
\* key; the Deployment document does not depend on any value of the config,
\* with maskSecrets true or false.
C17_ManifestIndirection ==
    (out.op = "generateOutput" /\ FormatOf(options) = "kubernetes") =>
        LET docs == Documents(out.text)
        IN  /\ Len(docs) = 3
            /\ HasLine(docs[1], <<"kind: ConfigMap">>)
            /\ HasLine(docs[2], <<"kind: Deployment">>)
            /\ HasLine(docs[3], <<"kind: Service">>)
            /\ \A key \in KeySet(config) :
                  Get(config, key) # EmptyStr =>
                     /\ PieceCount(docs[1], key) = 1
                     /\ LineCount(docs[1],
                            EntryLine("kubernetes", key,
                                      ShownValue(config, options, key))) = 1
                     /\ PieceCount(docs[2], key) = 2
                     /\ \E i \in 1..(Len(docs[2]) - 4) :
                           SubSeq(docs[2], i, i + 4) = RefLines(key)
                     /\ PieceCount(docs[3], key) = 0
            /\ docs[2] = Documents(generateOutput(Blind(config), options, now))[2]

\* masking off, a secret with a quote in it: escaped in the ConfigMap,
\* referred to by key in the Deployment
C17_Witness ==
    /\ out.op = "generateOutput"
    /\ FormatOf(options) = "kubernetes"
    /\ ~MaskOn(options)
    /\ Get(config, "DB_POSTGRESDB_PASSWORD") = <<"s", "\"">>
    /\ Len(config) = 2
    /\ Len(Documents(out.text)) = 3
    /\ HasLine(Documents(out.text)[1],
               <<"  ", "DB_POSTGRESDB_PASSWORD", ": \"", "s", "\\", "\"", "\"">>)
    /\ HasLine(Documents(out.text)[2],
               <<"              key: ", "DB_POSTGRESDB_PASSWORD">>)

\* C18: two calls of generateOutput with the same config and the same
\* options return the same text, and a call changes neither argument.
C18_RenderingPure ==
    [][ (out.op = "generateOutput" /\ out'.op = "generateOutput") =>
           /\ (config' = config /\ options' = options) => out'.text = out.text
           /\ config' = config
           /\ options' = options ]_vars

----------------------------------------------------------------------------
(* lib/storage.ts and lib/template-manager.ts: the custom templates.       *)
(* localStorage holds one item under the custom-templates key: absent,     *)
(* the JSON text of a template list (kept as the list it parses to), or    *)
(* text that does not parse ("corrupted").  A call runs against one        *)
(* behaviour io of the storage: "ok", "unavailable" (isStorageAvailable()  *)
(* is false) or "quota" (setItem throws).  A generated id is custom-<time>-*)
(* <random>; it is modelled by a number that is new at each generation.    *)

MAX_NAME_LENGTH == 100
MAX_DESCRIPTION_LENGTH == 500

\* getCustomTemplates with a fault: the error of a corrupted item is thrown on
getCustomTemplatesRethrow(item, io) ==
    IF io = "unavailable"
    THEN [error |-> "NOT_AVAILABLE", templates |-> <<>>, item |-> item]
    ELSE IF item.state = "corrupted"
    THEN [error |-> "CORRUPTED_DATA", templates |-> <<>>, item |-> item]
    ELSE [error |-> "none", templates |-> item.templates, item |-> item]

\* getCustomTemplates(): the error thrown (or "none"), the list returned and
\* the item as the call leaves it (a corrupted item is removed)
getCustomTemplates(item, io) ==
    IF io = "unavailable"
    THEN [error |-> "NOT_AVAILABLE", templates |-> <<>>, item |-> item]
    ELSE IF item.state = "corrupted"
    THEN [error |-> "none", templates |-> <<>>, item |-> NoItem]
    ELSE [error |-> "none", templates |-> item.templates, item |-> item]

\* getAllCustomTemplates(): a StorageError becomes STORAGE_ERROR
getAllCustomTemplates(item, io) ==
    LET got == getCustomTemplates(item, io)
    IN  [got EXCEPT !.error = IF got.error = "none" THEN "none"
                               ELSE "STORAGE_ERROR"]

\* setCustomTemplates(templates): the error thrown and the item left
setCustomTemplates(item, io, templates) ==
    IF io = "ok"
    THEN [error |-> "none", item |-> [state |-> "stored", templates |-> templates]]
    ELSE [error |-> "STORAGE_ERROR", item |-> item]

\* the code validateTemplateData(data) throws, "none" when it returns
validateTemplateData(data) ==
    IF \/ data.name = Undefined \/ data.name = EmptyStr
       \/ Trim(data.name) = EmptyStr
    THEN "INVALID_DATA"
    ELSE IF Len(data.name) > MAX_NAME_LENGTH THEN "INVALID_DATA"
    ELSE IF /\ data.description # Undefined /\ data.description # EmptyStr
            /\ Len(data.description) > MAX_DESCRIPTION_LENGTH
    THEN "INVALID_DATA"
    ELSE IF data.presets = Undefined THEN "INVALID_DATA"
    ELSE "none"

\* what a call of the template manager comes to: whether it returned, the
\* code it threw, the id of the template it returned (deleteTemplate: 0),
\* the item it leaves and whether it generated an id
Thrown(code, item) ==
    [ok |-> FALSE, code |-> code, result |-> 0, item |-> item, created |-> FALSE]
Returned(id, item, created) ==
    [ok |-> TRUE, code |-> "none", result |-> id, item |-> item, created |-> created]

\* NameTaken with a fault: the names are compared as they are
NameTakenExact(templates, name) ==
    \E i \in 1..Len(templates) : templates[i].name = name

\* templates.find(t => t.name.toLowerCase() === name.toLowerCase()) finds one
NameTaken(templates, name) ==
    \E i \in 1..Len(templates) : FoldCase(templates[i].name) = FoldCase(name)

\* saveTemplate(data), with the id and the clock reading it would use
saveTemplate(item, io, data, freshId, t) ==
    IF validateTemplateData(data) # "none" THEN Thrown("INVALID_DATA", item)
    ELSE
      LET got == getAllCustomTemplates(item, io)
      IN  IF got.error # "none" THEN Thrown(got.error, got.item)
          ELSE IF NameTaken(got.templates, Trim(data.name))
          THEN Thrown("DUPLICATE_NAME", got.item)
          ELSE
            LET newTemplate ==
                    [ id |-> freshId,
                      name |-> Trim(data.name),
                      description |-> IF data.description = Undefined
                                      THEN EmptyStr ELSE Trim(data.description),
                      icon |-> OrElse(data.icon, S_file),
                      categories |-> IF data.categories = Undefined THEN <<>>
                                     ELSE data.categories,
                      presets |-> data.presets,
                      createdAt |-> toISOString(t),
                      updatedAt |-> toISOString(t),
                      isCustom |-> TRUE ]
                put == setCustomTemplates(got.item, io,
                                          Append(got.templates, newTemplate))
            IN  IF put.error # "none" THEN Thrown(put.error, put.item)
                ELSE Returned(freshId, put.item, TRUE)

\* templates.findIndex(t => t.id === id), 0 for -1
FindIndex(templates, id) ==
    IF \A i \in 1..Len(templates) : templates[i].id # id THEN 0
    ELSE CHOOSE i \in 1..Len(templates) :
            /\ templates[i].id = id
            /\ \A j \in 1..(i - 1) : templates[j].id # id

\* the rename check of updateTemplate: the new name is another template's
RenameCollides(templates, id, existing, updates) ==
    /\ updates.name # Undefined /\ updates.name # EmptyStr
    /\ FoldCase(Trim(updates.name)) # FoldCase(existing.name)
    /\ \E i \in 1..Len(templates) :
          /\ templates[i].id # id
          /\ FoldCase(templates[i].name) = FoldCase(Trim(updates.name))

\* x?.trim() ?? y and x ?? y
TrimOr(x, y) == IF x = Undefined THEN y ELSE Trim(x)
Nullish(x, y) == IF x = Undefined THEN y ELSE x

\* updateTemplate with a fault: the list is written before it is validated
updateTemplateWriteFirst(item, io, id, updates, t) ==
    LET got == getAllCustomTemplates(item, io)
        index == FindIndex(got.templates, id)
    IN  IF got.error # "none" THEN Thrown(got.error, got.item)
        ELSE IF index = 0 THEN Thrown("NOT_FOUND", got.item)
        ELSE
          LET existing == got.templates[index]
              merged == [existing EXCEPT
                            !.name = TrimOr(updates.name, existing.name),
                            !.description =
                                TrimOr(updates.description, existing.description)]
              put == setCustomTemplates(got.item, io,
                         [got.templates EXCEPT ![index] = merged])
          IN  IF RenameCollides(got.templates, id, existing, updates)
              THEN Thrown("DUPLICATE_NAME", put.item)
              ELSE IF validateTemplateData(merged) # "none"
              THEN Thrown("INVALID_DATA", put.item)
              ELSE IF put.error # "none" THEN Thrown(put.error, put.item)
              ELSE Returned(id, put.item, FALSE)

\* updateTemplate(id, updates) at clock reading t
updateTemplate(item, io, id, updates, t) ==
    LET got == getAllCustomTemplates(item, io)
        index == FindIndex(got.templates, id)
    IN  IF got.error # "none" THEN Thrown(got.error, got.item)
        ELSE IF index = 0 THEN Thrown("NOT_FOUND", got.item)
        ELSE
          LET existing == got.templates[index]
              mergedData ==
                  [ name |-> TrimOr(updates.name, existing.name),
                    description |->
                        TrimOr(updates.description, existing.description),
                    icon |-> Nullish(updates.icon, existing.icon),
                    categories |->
                        IF updates.categories = Undefined
                        THEN existing.categories ELSE updates.categories,
                    presets |-> IF updates.presets = Undefined
                                THEN existing.presets ELSE updates.presets ]
              updatedTemplate ==
                  [existing EXCEPT
                      !.name = mergedData.name,
                      !.description = mergedData.description,
                      !.icon = mergedData.icon,
                      !.categories = mergedData.categories,
                      !.presets = mergedData.presets,
                      !.updatedAt = toISOString(t)]
              put == setCustomTemplates(got.item, io,
                         [got.templates EXCEPT ![index] = updatedTemplate])
          IN  IF RenameCollides(got.templates, id, existing, updates)
              THEN Thrown("DUPLICATE_NAME", got.item)
              ELSE IF validateTemplateData(mergedData) # "none"
              THEN Thrown("INVALID_DATA", got.item)
              ELSE IF put.error # "none" THEN Thrown(put.error, put.item)
              ELSE Returned(id, put.item, FALSE)

\* deleteTemplate(id); the boolean it returns is the ok of the outcome
deleteTemplate(item, io, id) ==
    LET got == getAllCustomTemplates(item, io)
    IN  IF got.error # "none" THEN Thrown(got.error, got.item)
        ELSE IF FindIndex(got.templates, id) = 0
        THEN Thrown("NOT_FOUND", got.item)
        ELSE
          LET filteredTemplates ==
                  SelectSeq(got.templates, LAMBDA tpl : tpl.id # id)
              put == setCustomTemplates(got.item, io, filteredTemplates)
          IN  IF put.error # "none" THEN Thrown(put.error, put.item)
              ELSE Returned(0, put.item, FALSE)

RECURSIVE NumberToString(_)
\* `${counter}`
NumberToString(n) ==
    IF n < 10 THEN << <<"0","1","2","3","4","5","6","7","8","9">>[n + 1] >>
    ELSE NumberToString(n \div 10)
         \o << <<"0","1","2","3","4","5","6","7","8","9">>[(n % 10) + 1] >>

S_Copy_of == <<"C","o","p","y"," ","o","f"," ">>

RECURSIVE FindUniqueName(_, _, _, _)
\* the while loop of duplicateTemplate
FindUniqueName(templates, baseName, finalName, counter) ==
    IF NameTaken(templates, finalName)
    THEN FindUniqueName(templates, baseName,
             baseName \o <<" ", "(">> \o NumberToString(counter + 1) \o <<")">>,
             counter + 1)
    ELSE finalName

\* what is not given in a data or updates object is undefined
NoData ==
    [ name |-> Undefined, description |-> Undefined, icon |-> Undefined,
      categories |-> Undefined, presets |-> Undefined ]

\* duplicateTemplate(id, newName)
duplicateTemplate(item, io, id, newName, freshId, t) ==
    LET got == getAllCustomTemplates(item, io)
        index == FindIndex(got.templates, id)
    IN  IF got.error # "none" THEN Thrown(got.error, got.item)
        ELSE IF index = 0 THEN Thrown("NOT_FOUND", got.item)
        ELSE
          LET template == got.templates[index]
              baseName == Nullish(newName, S_Copy_of \o template.name)
              finalName == FindUniqueName(got.templates, baseName, baseName, 1)
          IN  saveTemplate(got.item, io,
                  [ name |-> finalName,
                    description |-> template.description,
                    icon |-> template.icon,
                    categories |-> template.categories,
                    presets |-> template.presets ],
                  freshId, t)

\* importTemplate(json).  The text is given by what JSON.parse makes of it:
\* kind "garbage" (it throws), "null" (no object), or "object" with the
\* name read from it (undefined when it holds no string) and presetsKind
\* "undefined", "object" or "string"
importTemplate(item, io, json, freshId, t) ==
    IF json.kind = "garbage" THEN Thrown("INVALID_DATA", item)
    ELSE IF json.kind # "object" THEN Thrown("INVALID_DATA", item)
    ELSE IF json.name = Undefined THEN Thrown("INVALID_DATA", item)
    ELSE IF json.presetsKind = "string" THEN Thrown("INVALID_DATA", item)
    ELSE saveTemplate(item, io,
             [ name |-> json.name,
               description |-> EmptyStr,
               icon |-> S_file,
               categories |-> <<>>,
               presets |-> <<>> ],
             freshId, t)

----------------------------------------------------------------------------
(* The template manager calls as a state machine *)

LongName == [i \in 1..(MAX_NAME_LENGTH + 1) |-> "x"]
LongDescription == [i \in 1..(MAX_DESCRIPTION_LENGTH + 1) |-> "d"]

StorageBehaviours == {"ok", "unavailable", "quota"}

\* the data saveTemplate is given
SaveData ==
    { [NoData EXCEPT !.name = n, !.description = d, !.presets = <<>>] :
        n \in {<<"a">>, <<"A">>, <<" ", "b">>, <<" ">>, LongName},
        d \in {Undefined, LongDescription} }
    \cup { [NoData EXCEPT !.name = <<"a">>] }

\* the updates updateTemplate is given
UpdateData ==
    { [NoData EXCEPT !.name = n, !.description = d] :
        n \in {Undefined, <<"A">>, <<"b", " ">>, EmptyStr},
        d \in {Undefined, LongDescription} }

\* the texts importTemplate is given
ImportData ==
    { [kind |-> k, name |-> Undefined, presetsKind |-> "undefined"] :
        k \in {"garbage", "null", "object"} }
    \cup { [kind |-> "object", name |-> n, presetsKind |-> pk] :
             n \in {<<"a">>, <<"B">>}, pk \in {"undefined", "string"} }

\* an initially empty store: no item, or an item that does not parse
InitStore ==
    /\ localStorage \in {NoItem, [state |-> "corrupted", templates |-> <<>>]}
    /\ nextId = 1
    /\ sret = NoSret
    /\ ValIdle
    /\ DiffIdle
    /\ GenIdle
    /\ JsonIdle
    /\ WizIdle

\* the state after a call: the item, the id counter and the record of it
Outcome(op, id, data, io, res) ==
    /\ localStorage' = res.item
    /\ nextId' = IF res.created THEN nextId + 1 ELSE nextId
    /\ sret' = [ op |-> op, id |-> id, data |-> data, io |-> io,
                 ok |-> res.ok, code |-> res.code, result |-> res.result,
                 found |-> localStorage.state ]
    /\ UNCHANGED <<valVars, diffVars, genVars, jsonVars, wizVars>>

CallSaveTemplate ==
    \E data \in SaveData, io \in StorageBehaviours :
        /\ nextId <= MaxIds
        /\ Outcome("saveTemplate", 0, data, io,
                   saveTemplate(localStorage, io, data, nextId, now))

CallUpdateTemplate ==
    \E id \in 1..MaxIds, updates \in UpdateData, io \in StorageBehaviours :
        Outcome("updateTemplate", id, updates, io,
                updateTemplate(localStorage, io, id, updates, now))

CallDeleteTemplate ==
    \E id \in 1..MaxIds, io \in StorageBehaviours :
        Outcome("deleteTemplate", id, NoData, io,
                deleteTemplate(localStorage, io, id))

CallDuplicateTemplate ==
    \E id \in 1..MaxIds, newName \in {Undefined, <<"A">>, <<" ", "a">>},
       io \in StorageBehaviours :
        /\ nextId <= MaxIds
        /\ Outcome("duplicateTemplate", id, [NoData EXCEPT !.name = newName], io,
                   duplicateTemplate(localStorage, io, id, newName, nextId, now))

CallImportTemplate ==
    \E json \in ImportData, io \in StorageBehaviours :
        /\ nextId <= MaxIds
        /\ Outcome("importTemplate", 0, [NoData EXCEPT !.name = json.name], io,
                   importTemplate(localStorage, io, json, nextId, now))

NextStore ==
    \/ CallSaveTemplate
    \/ CallUpdateTemplate
    \/ CallDeleteTemplate
    \/ CallDuplicateTemplate
    \/ CallImportTemplate

SpecStore == InitStore /\ [][NextStore]_vars

----------------------------------------------------------------------------
(* Claims about the template manager *)

\* the template list a call finds: empty when there is no item or the item
\* does not parse
Stored(item) == IF item.state = "stored" THEN item.templates ELSE <<>>

StoredIds(item) == {Stored(item)[i].id : i \in 1..Len(Stored(item))}

\* the trimmed name is, ignoring case, the name of a stored template other
\* than the one with the id
Collides(item, name, id) ==
    /\ name # Undefined
    /\ \E i \in 1..Len(Stored(item)) :
          /\ Stored(item)[i].id # id
          /\ FoldCase(Stored(item)[i].name) = FoldCase(Trim(name))

\* a name that is given and is blank or too long
BadName(name) ==
    name # Undefined /\ (Trim(name) = EmptyStr \/ Len(name) > MAX_NAME_LENGTH)
\* a description that is given and is too long
BadDescription(d) == d # Undefined /\ Len(d) > MAX_DESCRIPTION_LENGTH

\* the data of a saveTemplate is invalid
SaveInvalid(data) ==
    \/ data.name = Undefined \/ BadName(data.name)
    \/ BadDescription(data.description)
    \/ data.presets = Undefined

\* no two stored templates have names that are equal ignoring case
NamesUnique ==
    \A i, j \in 1..Len(Stored(localStorage)) :
        FoldCase(Stored(localStorage)[i].name)
          = FoldCase(Stored(localStorage)[j].name) => i = j

\* a step is a saveTemplate or an updateTemplate of a stored template whose
\* name collides, the storage working
CollidingStep ==
    /\ sret'.io = "ok"
    /\ \/ /\ sret'.op = "saveTemplate"
          /\ Collides(localStorage, sret'.data.name, 0)
          /\ ~SaveInvalid(sret'.data)
       \/ /\ sret'.op = "updateTemplate"
          /\ sret'.id \in StoredIds(localStorage)
          /\ Collides(localStorage, sret'.data.name, sret'.id)

\* C19: from an empty store, after any calls of saveTemplate,
\* updateTemplate, deleteTemplate, duplicateTemplate and importTemplate,
\* failed or not, no two stored templates have names equal ignoring case;
\* a saveTemplate or a renaming updateTemplate whose trimmed name is,
\* ignoring case, the name of another stored template throws
\* DUPLICATE_NAME.
C19_TemplateNamesUnique ==
    /\ []NamesUnique
    /\ [][CollidingStep => (~sret'.ok /\ sret'.code = "DUPLICATE_NAME")]_vars

\* "a" is stored, saving "A" was refused
C19_Witness ==
    /\ sret.op = "saveTemplate"
    /\ sret.data.name = <<"A">>
    /\ sret.code = "DUPLICATE_NAME"
    /\ Len(Stored(localStorage)) = 1
    /\ Stored(localStorage)[1].name = <<"a">>

\* C20: a call that throws leaves the stored template list as it was;
\* updateTemplate and deleteTemplate with an id that is not stored throw
\* NOT_FOUND, saveTemplate and updateTemplate with invalid data throw
\* INVALID_DATA and with a colliding name DUPLICATE_NAME; a deleteTemplate
\* that returns removes exactly the template with the id.
C20_FailuresLeaveStore ==
    [][ LET before == Stored(localStorage)
            after  == Stored(localStorage')
            call   == sret'
        IN  /\ ~call.ok => after = before
            /\ ( /\ call.io = "ok"
                 /\ call.op \in {"updateTemplate", "deleteTemplate"}
                 /\ call.id \notin StoredIds(localStorage) )
               => (~call.ok /\ call.code = "NOT_FOUND")
            /\ (call.io = "ok" /\ call.op = "saveTemplate"
                   /\ SaveInvalid(call.data))
               => (~call.ok /\ call.code = "INVALID_DATA")
            /\ ( /\ call.io = "ok" /\ call.op = "updateTemplate"
                 /\ call.id \in StoredIds(localStorage)
                 /\ BadName(call.data.name) \/ BadDescription(call.data.description)
                 /\ ~Collides(localStorage, call.data.name, call.id) )
               => (~call.ok /\ call.code = "INVALID_DATA")
            /\ CollidingStep => (~call.ok /\ call.code = "DUPLICATE_NAME")
            /\ (call.op = "deleteTemplate" /\ call.ok)
               => /\ call.id \in StoredIds(localStorage)
                  /\ after = SelectSeq(before, LAMBDA tpl : tpl.id # call.id)
                  /\ Len(after) = Len(before) - 1 ]_vars

\* two templates were stored and an updateTemplate with a blank name threw
\* INVALID_DATA: both are still stored
C20_Witness ==
    /\ sret.op = "updateTemplate"
    /\ sret.io = "ok"
    /\ ~sret.ok
    /\ sret.code = "INVALID_DATA"
    /\ Len(Stored(localStorage)) = 2

----------------------------------------------------------------------------
(* The rule cache under any interleaving of calls *)

\* fields with every kind of rule list: numeric, enum, numeric with a
\* dependency rule, dependency only, required, none
CacheFields ==
    { "N8N_PORT", "DB_TYPE", "DB_POSTGRESDB_PORT", "QUEUE_BULL_REDIS_HOST",
      "CUSTOM_VAR" }

CacheValues == {EmptyStr, <<" ">>, <<"7">>}

InitCache ==
    /\ config \in MapsOver({"DB_TYPE", "DB_POSTGRESDB_PORT", "CUSTOM_VAR"},
                           MaxCacheKeys)
    /\ fieldRulesCache = EmptyCache
    /\ argField = "" /\ argValue = EmptyStr
    /\ ret = NoRet
    /\ DiffIdle
    /\ GenIdle
    /\ StoreIdle
    /\ JsonIdle
    /\ WizIdle

\* getFieldRules(f)
CallGetFieldRulesOf ==
    \E f \in CacheFields :
        /\ argField' = f
        /\ ret' = [NoRet EXCEPT !.op = "getFieldRules",
                       !.rules = getFieldRules(fieldRulesCache, f),
                       !.warm = (f \in DOMAIN fieldRulesCache)]
        /\ fieldRulesCache' = CacheAfterGet(fieldRulesCache, f)
        /\ UNCHANGED <<config, argValue, diffVars, genVars, storeVars, jsonVars, wizVars>>

\* validateField(f, v, config)
CallValidateFieldOf ==
    \E f \in CacheFields, v \in CacheValues :
        /\ argField' = f
        /\ argValue' = v
        /\ ret' = [NoRet EXCEPT !.op = "validateField",
                       !.errors = validateField(fieldRulesCache, f, v, config),
                       !.warm = (f \in DOMAIN fieldRulesCache)]
        /\ fieldRulesCache' = CacheAfterGet(fieldRulesCache, f)
        /\ UNCHANGED <<config, diffVars, genVars, storeVars, jsonVars, wizVars>>

NextCache ==
    \/ CallGetFieldRulesOf
    \/ CallValidateFieldOf
    \/ CallValidateConfig
    \/ ClearFieldRulesCache

SpecCache == InitCache /\ [][NextCache]_vars

\* the kinds and messages of a rule list, in order
Faces(rules) ==
    [i \in 1..Len(rules) |-> [type |-> rules[i].type, message |-> rules[i].message]]

\* C21: whatever calls of getFieldRules, validateField, validateConfig and
\* clearFieldRulesCache came before, over whatever fields, getFieldRules(f)
\* returns the kinds and messages, in order, of buildFieldRules(f), and
\* validateField and validateConfig return what they return with an empty
\* cache.
C21_CacheTransparent ==
    /\ ret.op = "getFieldRules"
       => Faces(ret.rules) = Faces(buildFieldRules(argField))
    /\ ret.op = "validateField"
       => ret.errors = validateField(EmptyCache, argField, argValue, config)
    /\ ret.op = "validateConfig"
       => ret.result = validateConfig(EmptyCache, config)

\* getFieldRules found the field cached, among other cached fields, and
\* returned its two rules
C21_Witness ==
    /\ ret.op = "getFieldRules"
    /\ ret.warm
    /\ argField = "DB_POSTGRESDB_PORT"
    /\ Len(ret.rules) = 2
    /\ Cardinality(DOMAIN fieldRulesCache) >= 3

----------------------------------------------------------------------------
(* Claims about the rules of one field *)

\* the error validateField reports for a message
ErrorOf(f, message) == [field |-> f, message |-> message, type |-> "error"]

\* the error of one kind of rule, when the field has the rule and the value
\* fails it
ErrorIf(has, passes, f, text) ==
    IF has /\ ~passes THEN <<ErrorOf(f, <<f, text>>)>> ELSE <<>>

\* one error per failing rule, in the order Required, Numeric, Boolean, Enum,
\* Postgres dependency, Redis dependency
ErrorsInRuleOrder(f, v, conf) ==
    ErrorIf(Includes(REQUIRED_FIELDS, f), RequiredValidate(v), f, " is required")
    \o ErrorIf(Includes(NUMERIC_FIELDS, f), NumericValidate(v), f,
               " must be a valid number")
    \o ErrorIf(Includes(BOOLEAN_FIELDS, f), BooleanValidate(v), f,
               " must be 'true' or 'false'")
    \o (IF f \in DOMAIN ENUM_VALUES /\ ~EnumValidate(v, ENUM_VALUES[f])
        THEN <<ErrorOf(f, <<f, " must be one of: ", ENUM_VALUES[f]>>)>>
        ELSE <<>>)
    \o ErrorIf(Includes(POSTGRES_REQUIRED_FIELDS, f),
               PostgresDependencyValidate(v, conf), f,
               " is required when using PostgreSQL database")
    \o ErrorIf(Includes(REDIS_REQUIRED_FIELDS, f),
               RedisDependencyValidate(v, conf), f,
               " is required when using Queue mode")

\* C24: validateField returns one error for each rule of the field that the
\* value fails, all of them, in the order Required, Numeric, Boolean, Enum,
\* Postgres dependency, Redis dependency; DB_POSTGRESDB_PORT with a value of
\* white space only under DB_TYPE = "postgresdb" gets the numeric error and
\* then the dependency error.
C24_EveryFailingRuleInOrder ==
    ret.op = "validateField" =>
        /\ ret.errors = ErrorsInRuleOrder(argField, argValue, config)
        /\ ( /\ argField = "DB_POSTGRESDB_PORT"
             /\ argValue # EmptyStr /\ Trim(argValue) = EmptyStr
             /\ PostgresOn(config) )
           => ret.errors =
                << ErrorOf(argField, <<argField, " must be a valid number">>),
                   ErrorOf(argField, <<argField,
                       " is required when using PostgreSQL database">>) >>

\* the port is one blank, the database is PostgreSQL, two errors came back
C24_Witness ==
    /\ ret.op = "validateField"
    /\ argField = "DB_POSTGRESDB_PORT"
    /\ argValue = <<" ">>
    /\ PostgresOn(config)
    /\ Len(ret.errors) = 2

----------------------------------------------------------------------------
(* Reverting field after field: the diff panel of the wizard shows           *)
(* computeDiff(config, presets), and each revert replaces config by           *)
(* revertField(field, config, presets)                                        *)

RevertMaps(values) ==
    LET entries == {[k |-> key, v |-> val] : key \in DiffKeys, val \in values}
    IN  UNION { {m \in [1..len -> entries] : WellFormedMap(m)} :
                len \in 0..MaxRevertKeys }

\* dret holds the diff on show, the number of reverts of a listed field so
\* far and the totalChanges of the first diff
InitRevert ==
    /\ heap \in {<<c, d>> : c \in RevertMaps(DiffValues),
                            d \in RevertMaps({EmptyStr, <<"a">>})}
    /\ cfg = 1 /\ defs = 2
    /\ dret = [ op |-> "computeDiff", field |-> "", ref |-> cfg,
                diff |-> computeDiff(heap[cfg], heap[defs]),
                reverts |-> 0,
                first |-> computeDiff(heap[cfg], heap[defs]).totalChanges ]
    /\ ValIdle
    /\ GenIdle
    /\ StoreIdle
    /\ JsonIdle
    /\ WizIdle

\* handleRevertField(field): the config is replaced by the map revertField
\* returns and the diff is computed again
CallRevertFieldAndDiff ==
    \E fieldName \in DiffKeys :
        LET res == revertField(heap, fieldName, cfg, defs)
        IN  /\ heap' = <<res.heap[res.ref], heap[defs]>>
            /\ dret' = [ op |-> "revertField", field |-> fieldName,
                         ref |-> cfg,
                         diff |-> computeDiff(res.heap[res.ref], heap[defs]),
                         reverts |-> dret.reverts
                             + (IF EntriesOf(dret.diff, fieldName) # <<>>
                                THEN 1 ELSE 0),
                         first |-> dret.first ]
            /\ UNCHANGED <<cfg, defs, valVars, genVars, storeVars, jsonVars,
                           wizVars>>

NextRevert == CallRevertFieldAndDiff

SpecRevert == InitRevert /\ [][NextRevert]_vars

\* what one revert does to the diff on show
RevertStep ==
    LET before == dret.diff
        after  == dret'.diff
        f      == dret'.field
        listed == EntriesOf(before, f) # <<>>
    IN  /\ after.totalChanges
             = before.totalChanges - (IF listed THEN 1 ELSE 0)
        /\ after.entries = SelectSeq(before.entries, LAMBDA e : e.field # f)

\* the reverts of listed fields so far and the changes left add up to the
\* changes of the first diff
RevertTally ==
    /\ dret.reverts + dret.diff.totalChanges = dret.first
    /\ dret.diff.hasChanges = (dret.reverts < dret.first)

\* C27: a revert of a field with a diff entry lowers totalChanges by one, a
\* revert of a field without one leaves it, and the entries of the other
\* fields stay as they are; so reverting the listed fields in any order
\* leaves hasChanges = FALSE after exactly as many reverts as the first
\* diff had changes.
C27_RevertMonotone ==
    /\ [][dret'.op = "revertField" => RevertStep]_vars
    /\ []RevertTally

\* three fields differed, three reverts later nothing differs
C27_Witness ==
    /\ dret.op = "revertField"
    /\ dret.first = 3
    /\ dret.reverts = 3
    /\ ~dret.diff.hasChanges

----------------------------------------------------------------------------
(* Claims about the shape of a diff *)

\* the ids of the categories whose variables name the field
CategoriesNaming(f) ==
    {categories[i].id : i \in {j \in 1..Len(categories) :
                                  Includes(categories[j].variables, f)}}

\* the same for the fields diffed here, worked out once
NamingOf == [f \in DiffKeys |-> CategoriesNaming(f)]

\* a comes no later than b by category, then by field, as localeCompare
\* orders them
NoLater(a, b) ==
    \/ localeCompare(a.category, b.category) < 0
    \/ /\ localeCompare(a.category, b.category) = 0
       /\ localeCompare(a.field, b.field) <= 0

\* C25: the entries of computeDiff ascend by category and then field, no
\* field has two entries, each entry carries the id of the category that
\* lists its field, or "unknown" when none does, totalChanges is the number
\* of entries and hasChanges says whether there is one.
C25_DiffShape ==
    dret.op \in {"computeDiff", "revertField"} =>
        LET entries == dret.diff.entries
        IN  /\ \A i, j \in 1..Len(entries) :
                  i < j => /\ NoLater(entries[i], entries[j])
                           /\ entries[i].field # entries[j].field
            /\ \A i \in 1..Len(entries) :
                  IF NamingOf[entries[i].field] = {}
                  THEN entries[i].category = "unknown"
                  ELSE entries[i].category \in NamingOf[entries[i].field]
            /\ dret.diff.totalChanges = Len(entries)
            /\ dret.diff.hasChanges = (dret.diff.totalChanges > 0)

\* after a revert CUSTOM_VAR, of no category, comes before N8N_HOST in the
\* config and is listed after it
C25_Witness ==
    /\ dret.op = "revertField"
    /\ Len(heap[cfg]) = 2
    /\ heap[cfg][1].k = "CUSTOM_VAR"
    /\ Len(dret.diff.entries) = 2
    /\ dret.diff.entries[1].field = "N8N_HOST"
    /\ dret.diff.entries[1].category = "deployment"
    /\ dret.diff.entries[2].field = "CUSTOM_VAR"
    /\ dret.diff.entries[2].category = "unknown"

----------------------------------------------------------------------------
(* Claims about a corrupted template item *)

\* the call reads the template list: every call but a saveTemplate that
\* rejects its data first and an importTemplate that rejects its text
ReadsStore(call) ==
    \/ call.op \in {"updateTemplate", "deleteTemplate", "duplicateTemplate"}
    \/ call.op = "saveTemplate" /\ ~SaveInvalid(call.data)
    \/ call.op = "importTemplate" /\ call.code # "INVALID_DATA"

\* C26: with an item under the custom-templates key that does not parse and
\* the storage working, a call that reads the list finds it empty and throws
\* no storage error, the item is removed, and a saveTemplate, at once or
\* after, succeeds and stores the new template alone.
C26_CorruptedItemAbsorbed ==
    [][ (sret'.io = "ok" /\ Stored(localStorage) = <<>>
            /\ localStorage.state \in {"corrupted", "absent"})
        => /\ (localStorage.state = "corrupted" /\ ReadsStore(sret'))
              => /\ sret'.code # "STORAGE_ERROR"
                 /\ localStorage'.state # "corrupted"
                 /\ sret'.op \in {"updateTemplate", "deleteTemplate",
                                  "duplicateTemplate"}
                    => (sret'.code = "NOT_FOUND" /\ localStorage' = NoItem)
           /\ (sret'.op = "saveTemplate" /\ ~SaveInvalid(sret'.data))
              => /\ sret'.ok
                 /\ localStorage'.state = "stored"
                 /\ Len(localStorage'.templates) = 1
                 /\ localStorage'.templates[1].name = Trim(sret'.data.name) ]_vars

\* the first call, a saveTemplate, found the corrupted item and left one
\* stored template
C26_Witness ==
    /\ sret.op = "saveTemplate"
    /\ sret.found = "corrupted"
    /\ sret.ok
    /\ localStorage.state = "stored"
    /\ Len(localStorage.templates) = 1

----------------------------------------------------------------------------
(* Claims about what masked output gives away *)

\* the config with every non-empty value of a sensitive name replaced by
\* one fixed value: two configs that differ in such values only have the
\* same image
BlindSecrets(conf) ==
    [i \in 1..Len(conf) |->
        IF conf[i].v # EmptyStr /\ conf[i].k \in SensitiveNames
        THEN [k |-> conf[i].k, v |-> <<"x">>] ELSE conf[i]]

\* C28: with maskSecrets true the text generated for a config, in any of the
\* four formats and at one reading of the clock, is the text generated for
\* any config that differs from it only in non-empty values of sensitive
\* names.
C28_MaskingLeaksNothing ==
    (out.op = "generateOutput" /\ MaskOn(options))
        => out.text = generateOutput(BlindSecrets(config), options, now)

----------------------------------------------------------------------------
(* lib/parser/json-parser.ts                                                 *)
(*                                                                           *)
(* A JSON text is a sequence of pieces: single characters, and property      *)
(* names of configs as atomic pieces (names hold no character that JSON      *)
(* escapes).  A JSON value is [t, s, m]: its type, the characters of a       *)
(* string, the ordered members [k, v] of an object.                          *)

JString(chars) == [t |-> "string", s |-> chars, m |-> <<>>]
JNull          == [t |-> "null", s |-> <<>>, m |-> <<>>]
JObject(members) == [t |-> "object", s |-> <<>>, m |-> members]
JOther(type)   == [t |-> type, s |-> <<>>, m |-> <<>>]

RECURSIVE JsonEscape(_)
\* the characters of a string as JSON.stringify writes them between quotes
JsonEscape(chars) ==
    IF chars = <<>> THEN <<>>
    ELSE (CASE Head(chars) = "\"" -> <<"\\", "\"">>
            [] Head(chars) = "\\" -> <<"\\", "\\">>
            [] Head(chars) = "\n" -> <<"\\", "n">>
            [] Head(chars) = "\t" -> <<"\\", "t">>
            [] OTHER -> <<Head(chars)>>)
         \o JsonEscape(Tail(chars))

Quote(chars) == <<"\"">> \o JsonEscape(chars) \o <<"\"">>

Spaces(n) == [i \in 1..n |-> " "]

RECURSIVE Stringify(_, _)
RECURSIVE StringifyMembers(_, _)
\* JSON.stringify(value, null, 2) of a value at an indentation
Stringify(v, indent) ==
    CASE v.t = "string" -> Quote(v.s)
      [] v.t = "null"   -> <<"n", "u", "l", "l">>
      [] v.t = "object" ->
            IF v.m = <<>> THEN <<"{", "}">>
            ELSE <<"{", "\n">> \o StringifyMembers(v.m, indent + 2)
                 \o <<"\n">> \o Spaces(indent) \o <<"}">>

StringifyMembers(members, indent) ==
    Spaces(indent) \o Quote(<<Head(members).k>>) \o <<":", " ">>
    \o Stringify(Head(members).v, indent)
    \o (IF Len(members) = 1 THEN <<>>
        ELSE <<",", "\n">> \o StringifyMembers(Tail(members), indent))

\* the config as a JSON object of strings
ConfigValue(conf) ==
    JObject([i \in 1..Len(conf) |-> [k |-> conf[i].k, v |-> JString(conf[i].v)]])

\* serializeJson(config, templateId) at clock reading t
serializeJson(conf, templateId, t) ==
    LET exportData ==
            JObject(<< [k |-> "version", v |-> JString(S_1_0_0)],
                       [k |-> "timestamp", v |-> JString(toISOString(t))],
                       [k |-> "templateId",
                        v |-> IF templateId = Null THEN JNull
                              ELSE JString(templateId)],
                       [k |-> "config", v |-> ConfigValue(conf)] >>)
    IN  Stringify(exportData, 0)

JsonWhiteSpace == {" ", "\n", "\t", "\r"}

\* the first index from i on that holds no white space (Len + 1 at the end)
SkipWs(text, i) ==
    CHOOSE j \in i..(Len(text) + 1) :
        /\ j = Len(text) + 1 \/ text[j] \notin JsonWhiteSpace
        /\ \A k \in i..(j - 1) : text[k] \in JsonWhiteSpace

\* the number of backslashes right before index j, not before index low
BackslashRun(text, low, j) ==
    Cardinality({k \in low..(j - 1) : \A n \in k..(j - 1) : text[n] = "\\"})

\* the quotes that close the string opened at i: not escaped
ClosingQuotes(text, i) ==
    {j \in (i + 1)..Len(text) :
        text[j] = "\"" /\ BackslashRun(text, i + 1, j) % 2 = 0}

Min(S) == CHOOSE x \in S : \A y \in S : x <= y

RECURSIVE Unescape(_)
\* the characters a string literal stands for; <<"\\">> alone marks an
\* escape JSON does not have
Unescape(raw) ==
    IF raw = <<>> THEN [ok |-> TRUE, s |-> <<>>]
    ELSE IF Head(raw) \in {"\n", "\t", "\r"} THEN [ok |-> FALSE, s |-> <<>>]
    ELSE IF Head(raw) # "\\"
    THEN LET rest == Unescape(Tail(raw))
         IN  [ok |-> rest.ok, s |-> <<Head(raw)>> \o rest.s]
    ELSE IF Len(raw) < 2 \/ raw[2] \notin {"\"", "\\", "/", "n", "t", "r"}
    THEN [ok |-> FALSE, s |-> <<>>]
    ELSE LET rest == Unescape(SubSeq(raw, 3, Len(raw)))
             c    == CASE raw[2] = "n" -> "\n"
                       [] raw[2] = "t" -> "\t"
                       [] raw[2] = "r" -> "\r"
                       [] OTHER -> raw[2]
         IN  [ok |-> rest.ok, s |-> <<c>> \o rest.s]

JFail == [ok |-> FALSE, v |-> JNull, next |-> 0]

\* a string literal at i
ParseString(text, i) ==
    IF i > Len(text) \/ text[i] # "\"" \/ ClosingQuotes(text, i) = {} THEN JFail
    ELSE LET j   == Min(ClosingQuotes(text, i))
             got == Unescape(SubSeq(text, i + 1, j - 1))
         IN  IF got.ok THEN [ok |-> TRUE, v |-> JString(got.s), next |-> j + 1]
             ELSE JFail

\* CreateDataProperty(object, key, value): JSON.parse defines own properties
DefineOwn(members, key, v) ==
    IF \E i \in 1..Len(members) : members[i].k = key
    THEN [i \in 1..Len(members) |->
            IF members[i].k = key THEN [k |-> key, v |-> v] ELSE members[i]]
    ELSE Append(members, [k |-> key, v |-> v])

RECURSIVE ParseValue(_, _)
RECURSIVE ParseMembers(_, _, _)
\* a JSON value at i (white space skipped by the caller)
ParseValue(text, i) ==
    IF i > Len(text) THEN JFail
    ELSE IF text[i] = "\"" THEN ParseString(text, i)
    ELSE IF text[i] = "{"
    THEN LET j == SkipWs(text, i + 1)
         IN  IF j <= Len(text) /\ text[j] = "}"
             THEN [ok |-> TRUE, v |-> JObject(<<>>), next |-> j + 1]
             ELSE ParseMembers(text, j, <<>>)
    ELSE IF text[i] = "[" 
    THEN LET j == SkipWs(text, i + 1)
         IN  IF j <= Len(text) /\ text[j] = "]"
             THEN [ok |-> TRUE, v |-> JOther("array"), next |-> j + 1]
             ELSE JFail
    ELSE IF i + 3 <= Len(text) /\ SubSeq(text, i, i + 3) = <<"n", "u", "l", "l">>
    THEN [ok |-> TRUE, v |-> JNull, next |-> i + 4]
    ELSE IF IsDigit(text[i]) /\ (i = Len(text) \/ ~IsDigit(text[i + 1]))
    THEN [ok |-> TRUE, v |-> JOther("number"), next |-> i + 1]
    ELSE JFail

\* the members of an object from i on, after those in acc
ParseMembers(text, i, acc) ==
    LET key == ParseString(text, i)
    IN  IF ~key.ok \/ Len(key.v.s) # 1 THEN JFail
        ELSE LET colon == SkipWs(text, key.next)
             IN  IF colon > Len(text) \/ text[colon] # ":" THEN JFail
                 ELSE LET val == ParseValue(text, SkipWs(text, colon + 1))
                      IN  IF ~val.ok THEN JFail
                          ELSE LET after == SkipWs(text, val.next)
                                   more  == DefineOwn(acc, key.v.s[1], val.v)
                               IN  IF after > Len(text) THEN JFail
                                   ELSE IF text[after] = "}"
                                   THEN [ok |-> TRUE, v |-> JObject(more),
                                         next |-> after + 1]
                                   ELSE IF text[after] = ","
                                   THEN ParseMembers(text,
                                            SkipWs(text, after + 1), more)
                                   ELSE JFail

\* JSON.parse(content): the value, or not ok for a SyntaxError
JSONparse(content) ==
    LET got == ParseValue(content, SkipWs(content, 1))
    IN  IF got.ok /\ SkipWs(content, got.next) = Len(content) + 1 THEN got
        ELSE JFail

JUndefined == JOther("undefined")

\* object.key: the own property, or undefined
Prop(object, key) ==
    IF \E i \in 1..Len(object.m) : object.m[i].k = key
    THEN object.m[CHOOSE i \in 1..Len(object.m) : object.m[i].k = key].v
    ELSE JUndefined

\* config[key] = value on an object literal: an ordinary assignment, which
\* for the key "__proto__" runs the setter of Object.prototype; the setter
\* ignores a value that is no object and no property is written
Assign(m, key, chars) ==
    IF key = "__proto__" THEN m ELSE Put(m, key, chars)

RECURSIVE CopyStrings(_, _)
\* the loop over Object.entries(parsed.config): the first key whose value is
\* no string ("" when there is none) and the config built
CopyStrings(members, acc) ==
    IF members = <<>> THEN [bad |-> "", config |-> acc]
    ELSE IF Head(members).v.t # "string"
    THEN [bad |-> Head(members).k, config |-> acc]
    ELSE CopyStrings(Tail(members),
                     Assign(acc, Head(members).k, Head(members).v.s))

Failure(message) == [success |-> FALSE, error |-> message, data |-> NoExport]

\* !x || typeof x !== 'object' || Array.isArray(x)
NotPlainObject(v) == v.t # "object"

\* parseJson(content)
parseJson(content) ==
    IF Trim(content) = EmptyStr THEN Failure("Content must be a non-empty string")
    ELSE
      LET got    == JSONparse(content)
          parsed == got.v
      IN  IF ~got.ok THEN Failure("Invalid JSON syntax")
          ELSE IF NotPlainObject(parsed)
          THEN Failure("Invalid JSON: content must be an object")
          ELSE IF Prop(parsed, "version").t # "string"
          THEN Failure("Invalid config export: missing or invalid version field")
          ELSE IF Prop(parsed, "timestamp").t # "string"
          THEN Failure("Invalid config export: missing or invalid timestamp field")
          ELSE IF Prop(parsed, "templateId").t \notin {"null", "string"}
          THEN Failure("Invalid config export: templateId must be a string or null")
          ELSE IF NotPlainObject(Prop(parsed, "config"))
          THEN Failure("Invalid config export: missing or invalid config field")
          ELSE
            LET copied == CopyStrings(Prop(parsed, "config").m, <<>>)
            IN  IF copied.bad # ""
                THEN Failure("Invalid config export: config value must be a string")
                ELSE [ success |-> TRUE, error |-> "none",
                       data |-> [ version |-> Prop(parsed, "version").s,
                                  timestamp |-> Prop(parsed, "timestamp").s,
                                  templateId |->
                                      IF Prop(parsed, "templateId").t = "null"
                                      THEN Null
                                      ELSE Prop(parsed, "templateId").s,
                                  config |-> copied.config ] ]

----------------------------------------------------------------------------
(* Export and import of JSON as a state machine *)

\* keys: two environment variable names and the one name that an ordinary
\* assignment does not write; values with the characters JSON escapes
JsonKeys == {"N8N_HOST", "CUSTOM_VAR", "__proto__"}
JsonValues ==
    {EmptyStr, <<"\"", "\\">>, <<"\\", "n">>, <<"\n", " ">>}

JsonConfigs ==
    LET entries == {[k |-> key, v |-> val] : key \in JsonKeys, val \in JsonValues}
    IN  UNION { {m \in [1..len -> entries] : WellFormedMap(m)} :
                len \in 0..MaxJsonKeys }

JsonTemplateIds == {Null, EmptyStr, <<"\"">>}

\* texts that serializeJson did not write
ForeignTexts ==
    { <<>>, <<" ">>, <<"n", "u", "l", "l">>, <<"[", "]">>, <<"{">>, <<"{", "}">>,
      <<"\"", "a", "\"">>,
      Stringify(JObject(<<[k |-> "version", v |-> JString(S_1_0_0)]>>), 0),
      Stringify(JObject(<< [k |-> "version", v |-> JString(S_1_0_0)],
                           [k |-> "timestamp", v |-> JString(<<"t">>)] >>), 0),
      Stringify(JObject(<< [k |-> "version", v |-> JString(S_1_0_0)],
                           [k |-> "timestamp", v |-> JString(<<"t">>)],
                           [k |-> "templateId", v |-> JNull] >>), 0),
      Stringify(JObject(<< [k |-> "version", v |-> JString(S_1_0_0)],
                           [k |-> "timestamp", v |-> JString(<<"t">>)],
                           [k |-> "templateId", v |-> JNull],
                           [k |-> "config", v |-> JObject(
                               <<[k |-> "N8N_HOST", v |-> JNull]>>)] >>), 0) }

InitJson ==
    /\ jret = NoJret
    /\ ValIdle
    /\ DiffIdle
    /\ GenIdle
    /\ StoreIdle
    /\ WizIdle

\* serializeJson(config, templateId)
CallSerializeJson ==
    \E conf \in JsonConfigs, templateId \in JsonTemplateIds, t \in 0..MaxClock :
        /\ jret' = [ op |-> "serializeJson", config |-> conf,
                     templateId |-> templateId,
                     text |-> serializeJson(conf, templateId, t),
                     result |-> NoParse ]
        /\ UNCHANGED <<valVars, diffVars, genVars, storeVars, wizVars>>

\* parseJson of the text serializeJson returned
CallParseJson ==
    /\ jret.op = "serializeJson"
    /\ jret' = [jret EXCEPT !.op = "parseJson", !.result = parseJson(jret.text)]
    /\ UNCHANGED <<valVars, diffVars, genVars, storeVars, wizVars>>

\* parseJson of another text
CallParseJsonOf ==
    \E content \in ForeignTexts :
        /\ jret' = [ op |-> "parseJsonOf", config |-> <<>>, templateId |-> Null,
                     text |-> content, result |-> parseJson(content) ]
        /\ UNCHANGED <<valVars, diffVars, genVars, storeVars, wizVars>>

NextJson ==
    \/ CallSerializeJson
    \/ CallParseJson
    \/ CallParseJsonOf

SpecJson == InitJson /\ [][NextJson]_vars

\* C23: parseJson of the text serializeJson(config, templateId) returns
\* succeeds, with a config deep-equal to config, the same templateId (a
\* string or null) and strings for version and timestamp.
C23_JsonRoundTrip ==
    jret.op = "parseJson" =>
        /\ jret.result.success
        /\ DeepEqual(jret.result.data.config, jret.config)
        /\ jret.result.data.templateId = jret.templateId
        /\ jret.result.data.version \notin {Undefined, Null}
        /\ jret.result.data.timestamp \notin {Undefined, Null}

----------------------------------------------------------------------------
(* unnamed/part_001: the wizard page (WizardContent) as a state machine.    *)
(*                                                                           *)
(* The React state is step, selectedTemplate (a template id, "null" for     *)
(* none), config, showOutput, showImport and showDiff.  One action is one   *)
(* user event: its handler, the render that follows (validateConfig runs    *)
(* through the rule cache) and the effects of that render.  keydown is the  *)
(* window's keydown listener: the closure of the render at which the effect *)
(* with dependencies [step, showOutput, showDiff] last ran; what it holds   *)
(* of that render is handleGenerate with its canGenerateConfig.  event      *)
(* names the last user event.                                               *)

\* lib/n8n-config.ts: the presets of two of the built-in templates
templates ==
    [ minimal |->
        << [k |-> "N8N_HOST", v |-> S_localhost],
           [k |-> "N8N_PORT", v |-> S_5678],
           [k |-> "N8N_PROTOCOL", v |-> S_http] >>,
      production |->
        << [k |-> "DB_TYPE", v |-> S_postgresdb],
           [k |-> "N8N_PROTOCOL", v |-> S_https],
           [k |-> "N8N_SECURE_COOKIE", v |-> S_true],
           [k |-> "N8N_LOG_LEVEL", v |-> S_warn],
           [k |-> "EXECUTIONS_DATA_PRUNE", v |-> S_true],
           [k |-> "N8N_DIAGNOSTICS_ENABLED", v |-> S_false] >> ]

\* selectedTemplate.presets
Presets == templates[selectedTemplate]

\* what the user types into the form, and what an import brings
WizardFields == {"N8N_PORT", "DB_TYPE"}
WizardValues == {EmptyStr, <<"x">>, S_sqlite}
ImportedConfigs ==
    { <<>>, <<[k |-> "N8N_PORT", v |-> <<"x">>]>>,
      <<[k |-> "DB_TYPE", v |-> S_sqlite], [k |-> "N8N_PORT", v |-> S_5678]>> }

\* canGenerateConfig of the render of a config
CanGenerate(conf) == validateConfig(fieldRulesCache, conf).valid

\* the render after the handler has set the state to these values, and its
\* effects: the keydown listener is registered again only when one of its
\* dependencies changed
Render(newStep, newTemplate, newConfig, newOutput, newImport, newDiff) ==
    /\ step' = newStep
    /\ selectedTemplate' = newTemplate
    /\ config' = newConfig
    /\ showOutput' = newOutput
    /\ showImport' = newImport
    /\ showDiff' = newDiff
    /\ fieldRulesCache' = CacheAfterValidate(fieldRulesCache, newConfig)
    /\ keydown' = IF <<newStep, newOutput, newDiff>> # <<step, showOutput, showDiff>>
                  THEN [canGenerateConfig |-> CanGenerate(newConfig)]
                  ELSE keydown
    /\ UNCHANGED <<argField, argValue, ret, diffVars, genVars, storeVars, jsonVars>>

\* handleGenerate of a render whose canGenerateConfig is can
handleGenerate(can) ==
    IF ~can THEN Render(step, selectedTemplate, config, showOutput, showImport, showDiff)
    ELSE Render(step, selectedTemplate, config, TRUE, showImport, showDiff)

InitWizard ==
    /\ ValIdle
    /\ DiffIdle
    /\ GenIdle
    /\ StoreIdle
    /\ JsonIdle
    /\ WizIdle

\* TemplateSelector, shown at step "template": handleTemplateSelect
HandleTemplateSelect ==
    /\ step = "template"
    /\ \E id \in DOMAIN templates :
        Render("configure", id, templates[id], showOutput, showImport, showDiff)
    /\ event' = "handleTemplateSelect"

\* ConfigForm, shown at step "configure": handleConfigChange(name, value)
HandleConfigChange ==
    /\ step = "configure"
    /\ \E name \in WizardFields, value \in WizardValues :
        Render(step, selectedTemplate, Put(config, name, value),
               showOutput, showImport, showDiff)
    /\ event' = "handleConfigChange"

\* ConfigForm and QuickActions: handleResetToTemplate
HandleResetToTemplate ==
    /\ step = "configure"
    /\ Render(step, selectedTemplate,
              IF selectedTemplate # "null" THEN Presets ELSE config,
              showOutput, showImport, showDiff)
    /\ event' = "handleResetToTemplate"

\* the Start Over button of the header: handleStartOver
HandleStartOver ==
    /\ step = "configure" /\ selectedTemplate # "null"
    /\ Render("template", "null", <<>>, FALSE, FALSE, showDiff)
    /\ event' = "handleStartOver"

\* the Import button of the header: handleOpenImport
HandleOpenImport ==
    /\ step = "configure"
    /\ Render(step, selectedTemplate, config, showOutput, TRUE, showDiff)
    /\ event' = "handleOpenImport"

\* ImportModal, Import button: handleImport(importedConfig), then onClose
HandleImport ==
    /\ showImport
    /\ \E importedConfig \in ImportedConfigs :
        Render(step, selectedTemplate, PutAll(config, importedConfig),
               showOutput, FALSE, showDiff)
    /\ event' = "handleImport"

\* ImportModal, Cancel: onClose
CloseImport ==
    /\ showImport
    /\ Render(step, selectedTemplate, config, showOutput, FALSE, showDiff)
    /\ event' = "closeImport"

\* the Compare button of the header: handleOpenDiff
HandleOpenDiff ==
    /\ step = "configure"
    /\ Render(step, selectedTemplate, config, showOutput, showImport, TRUE)
    /\ event' = "handleOpenDiff"

\* the diff panel is rendered
DiffShown == step = "configure" /\ showDiff /\ selectedTemplate # "null"

\* the close button of the diff panel: handleCloseDiff
HandleCloseDiff ==
    /\ DiffShown
    /\ Render(step, selectedTemplate, config, showOutput, showImport, FALSE)
    /\ event' = "handleCloseDiff"

\* DiffView, the revert button of an entry: handleRevertField(field)
HandleRevertField ==
    /\ DiffShown
    /\ \E e \in Range(computeDiff(config, Presets).entries) :
        LET res == revertField(<<config, Presets>>, e.field, 1, 2)
        IN  Render(step, selectedTemplate, res.heap[res.ref],
                   showOutput, showImport, showDiff)
    /\ event' = "handleRevertField"

\* DiffView, Revert All: handleRevertAll
HandleRevertAll ==
    /\ DiffShown
    /\ LET res == revertAll(<<config, Presets>>, 1, 2)
       IN  Render(step, selectedTemplate, res.heap[res.ref],
                  showOutput, showImport, FALSE)
    /\ event' = "handleRevertAll"

\* the Generate buttons (header, QuickActions), disabled unless canGenerate:
\* handleGenerate of the current render
ClickGenerate ==
    /\ step = "configure"
    /\ CanGenerate(config)
    /\ handleGenerate(CanGenerate(config))
    /\ event' = "clickGenerate"

\* Ctrl/Cmd+G: the registered listener calls the handleGenerate it closed over
KeyGenerate ==
    /\ IF step = "configure" THEN handleGenerate(keydown.canGenerateConfig)
       ELSE Render(step, selectedTemplate, config, showOutput, showImport, showDiff)
    /\ event' = "keyGenerate"

\* Escape: closes the output panel, else the diff view
KeyEscape ==
    /\ IF showOutput
       THEN Render(step, selectedTemplate, config, FALSE, showImport, showDiff)
       ELSE IF showDiff
       THEN Render(step, selectedTemplate, config, showOutput, showImport, FALSE)
       ELSE Render(step, selectedTemplate, config, showOutput, showImport, showDiff)
    /\ event' = "keyEscape"

\* OutputPanel, close button: onClose
CloseOutput ==
    /\ step = "configure" /\ showOutput
    /\ Render(step, selectedTemplate, config, FALSE, showImport, showDiff)
    /\ event' = "closeOutput"

NextWizard ==
    \/ HandleTemplateSelect
    \/ HandleConfigChange
    \/ HandleResetToTemplate
    \/ HandleStartOver
    \/ HandleOpenImport
    \/ HandleImport
    \/ CloseImport
    \/ HandleOpenDiff
    \/ HandleCloseDiff
    \/ HandleRevertField
    \/ HandleRevertAll
    \/ ClickGenerate
    \/ KeyGenerate
    \/ KeyEscape
    \/ CloseOutput

SpecWizard == InitWizard /\ [][NextWizard]_vars

\* a generate request has just been made
GenerateRequest == event' \in {"clickGenerate", "keyGenerate"} /\ step = "configure"

\* C22: a generate request, from the button or from Ctrl/Cmd+G at step
\* "configure", decides on validateConfig of the config current at the
\* request: showOutput becomes true only if it is valid, and stays as it was
\* if it has errors; the shortcut decides as the button would.
C22_ErrorsBlockGenerate ==
    [][GenerateRequest =>
        /\ (~validateConfig(EmptyCache, config).valid => showOutput' = showOutput)
        /\ (showOutput' /\ ~showOutput => validateConfig(EmptyCache, config).valid)
        /\ (event' = "keyGenerate" =>
                keydown.canGenerateConfig = validateConfig(EmptyCache, config).valid)
    ]_vars

\* C29: step = "configure" exactly when a template is selected, and at step
\* "template" the config is empty and no panel is open.
C29_StepInvariant ==
    /\ (step = "configure") <=> (selectedTemplate # "null")
    /\ step = "template" =>
        /\ config = <<>>
        /\ ~showOutput /\ ~showImport /\ ~showDiff

\* C30: whenever the output panel is shown, validateConfig(config) is valid.
C30_OutputOnlyFromValid ==
    showOutput => validateConfig(EmptyCache, config).valid

====
